---- MODULE Spec2Model ----
(***************************************************************************)
(* KangaMarketRanking: the compound sort engine (useMarketSorting), the    *)
(* market comparators and the RAG priority comparator, the data hook       *)
(* (useMarketData), the spread utilities (calculateSpread, classifyRAG),   *)
(* the search filter (useMarketFiltering) and the market summary           *)
(* validator (validateMarketSummary).                                      *)
(*                                                                         *)
(* JavaScript values are encoded as follows.                               *)
(*   - a SortConfig is a record [field, order]; the JavaScript values      *)
(*     null and undefined in a SortConfig position are the records         *)
(*     NullConfig and UndefinedConfig;                                     *)
(*   - a nullable number read by the comparators is a record [isNull, v]; *)
(*     a number | null | undefined of the spread utilities is a record     *)
(*     [kind, m, e] with floating-point arithmetic;                        *)
(*   - a call that throws a TypeError leaves the React state unchanged and *)
(*     is recorded in the variable threw.                                  *)
(***************************************************************************)
EXTENDS Integers, Sequences, FiniteSets, TLC

\* ------------------------------------------------------------------ bounds
\* largest maxSorts option that is explored
MaxCap == 2
\* longest market list handed to sortMarkets
MaxLen == 3
\* significant bits of the floating-point arithmetic
Precision == 6
\* finite numbers handed to the spread utilities: m * 2^e with m up to
\* MaxMant and e between -MaxExp and MaxExp, of either sign
MaxMant == 3
MaxExp == 5
\* fetchMarkets calls made on one useMarketData hook
MaxCalls == 2
\* longest search query and longest record list handed to filterMarkets
MaxQuery == 3
MaxRecords == 2
\* longest summary array handed to validateMarketSummary, and the number of
\* numeric fields of one item that take arbitrary raw values
MaxItems == 2
MaxOdd == 1
MaxSide == 2
MaxFetches == 2
MaxRequests == 2
MaxAttempts == 2

\* ------------------------------------------------------------- data types
SortFields == {"market", "spread", "volume", "price", "ragStatus"}

SortOrders == {"asc", "desc"}

Cfg(f, o) == [field |-> f, order |-> o]

SortConfigs == {Cfg(f, o) : f \in SortFields, o \in SortOrders}

NullConfig == [field |-> "null", order |-> "null"]

UndefinedConfig == [field |-> "undefined", order |-> "undefined"]

NullNum == [isNull |-> TRUE, v |-> 0]

Num(n) == [isNull |-> FALSE, v |-> n]

\* maxSorts when the option is omitted
DefaultMaxSorts == 2

\* defaultSort when the option is omitted (undefined)
FallbackSort == Cfg("volume", "desc")

VARIABLES
    options,      \* the options object the hook was created with
    sortConfigs,  \* useState<SortConfig[]>: the sort chain
    threw,        \* TRUE iff the last call threw a TypeError
    lastCall,     \* the last call made on the hook: [op, field]
    prevConfigs,  \* the sort chain before the last call
    ring,         \* consecutive toggleSort(field) calls since field was OFF
    markets,      \* the argument of the last sortMarkets call
    sortResult,   \* what the last sortMarkets call produced
    cmp,          \* the last comparator call and its results
    marketsState, \* useMarketData: useState<MarketData[]>
    loading,      \* useMarketData: useState(true)
    error,        \* useMarketData: useState<Error | null>
    lastUpdated,  \* useMarketData: useState<Date | null>
    calls,        \* the fetchMarkets calls made so far: their two requests,
                  \* their outcome, and at their start the value of
                  \* lastSuccess (seen) and the calls in flight (open)
    lastSuccess,  \* the call whose try block completed last (0: none yet)
    lastEvent,    \* the last step of useMarketData: [kind, id]
    prevMarkets,  \* marketsState before the last step
    prevUpdated,  \* lastUpdated before the last step
    calc,         \* the last call of a spread utility and its result
    filt,         \* the last filterMarkets call and its result
    valid,        \* the last validator call and its outcome
    book,         \* the last analyzeOrderBook call and its result
    marketId,     \* useMarketDepth: the marketId argument of the last render
    depth,        \* useMarketDepth: useState<ValidatedMarketDepth | null>
    analysis,     \* useMarketDepth: useState<MarketDepthAnalysis | null>
    depthLoading, \* useMarketDepth: useState(true), loading
    depthError,   \* useMarketDepth: useState<Error | null>, error
    fetches,      \* the getMarketDepth calls made so far: [marketId, status]
    depthEvent,   \* the last step of useMarketDepth, and depth, analysis
                  \* and the number of getMarketDepth calls before it
    rawMarkets,   \* useFilteredAndSortedMarkets: the markets argument
    searchQuery,  \* useFilteredAndSortedMarkets: the searchQuery argument
    searchFieldsOption, \* options.searchFields: the fields searched and whether
                  \* the caller passes the same array on every render
    filteredMarkets, \* what useMemo holds: [status, value]
    requests,     \* KangaApiClient: the requests made through axiosInstance:
                  \* [phase, retryCount, issued, error]
    MAX_RETRY_ATTEMPTS \* KangaApiClient: config.API_RETRY_ATTEMPTS

hookVars == <<options, sortConfigs, threw, lastCall, prevConfigs, ring>>

dataVars == <<marketsState, loading, error, lastUpdated, calls, lastSuccess,
              lastEvent, prevMarkets, prevUpdated>>

utilVars == <<calc, filt, valid>>

depthVars == <<marketId, depth, analysis, depthLoading, depthError, fetches,
               depthEvent>>

orchVars == <<rawMarkets, searchQuery, searchFieldsOption, filteredMarkets>>

apiVars == <<requests, MAX_RETRY_ATTEMPTS>>

moreVars == <<book, depthVars, orchVars, apiVars>>

vars == <<options, sortConfigs, threw, lastCall, prevConfigs, ring,
          markets, sortResult, cmp, dataVars, utilVars, moreVars>>

\* --------------------------------------------------------- useMarketSorting
\* const { defaultSort = {field:'volume', order:'desc'}, maxSorts = 2 } = options
\* (a destructuring default replaces undefined only; null is kept)
defaultSort ==
    IF options.defaultSort = UndefinedConfig THEN FallbackSort
    ELSE options.defaultSort

maxSorts == options.maxSorts

\* the option objects explored: defaultSort omitted, null (as the Markets
\* screen passes it) or an explicit SortConfig; maxSorts omitted or 1..MaxCap
OptionSpace ==
    [defaultSort : {UndefinedConfig, NullConfig} \cup SortConfigs,
     maxSorts : {DefaultMaxSorts} \cup (1..MaxCap)]

NoCall == [op |-> "init", field |-> "none"]

NoResult == [status |-> "none", value |-> <<>>]

NoCmp == [status |-> "none"]

\* useState<SortConfig[]>([defaultSort])
InitialChain == <<defaultSort>>

\* current.findIndex((config) => config.field === field):
\* the first index whose entry has the field, 0 for JavaScript's -1.
\* Reading .field of a null entry throws; see FindThrows.
RECURSIVE FindFrom(_, _, _)
FindFrom(chain, field, i) ==
    IF i > Len(chain) THEN 0
    ELSE IF chain[i].field = field THEN i
    ELSE FindFrom(chain, field, i + 1)

findIndex(chain, field) == FindFrom(chain, field, 1)

\* findIndex dereferences every entry up to and including the match
FindThrows(chain, field) ==
    \E i \in 1..Len(chain) :
        /\ chain[i] = NullConfig
        /\ \A j \in 1..(i - 1) : chain[j].field # field

\* current.filter((_, i) => i !== existingIndex)
RemoveAt(chain, k) ==
    [i \in 1..(Len(chain) - 1) |-> IF i < k THEN chain[i] ELSE chain[i + 1]]

\* faulty variants of the updater, used to show the properties below depend on it
\* (no eviction at the cap)
ToggleUpdater_NoEvict(current, field) ==
    LET existingIndex == findIndex(current, field) IN
    IF existingIndex # 0
    THEN IF current[existingIndex].order = "desc"
         THEN [current EXCEPT ![existingIndex] = Cfg(field, "asc")]
         ELSE LET filtered == RemoveAt(current, existingIndex) IN
              IF Len(filtered) = 0 THEN <<defaultSort>> ELSE filtered
    ELSE current \o <<Cfg(field, "desc")>>

\* (a desc entry is removed instead of flipped to asc)
ToggleUpdater_SkipAsc(current, field) ==
    LET existingIndex == findIndex(current, field) IN
    IF existingIndex # 0
    THEN LET filtered == RemoveAt(current, existingIndex) IN
         IF Len(filtered) = 0 THEN <<defaultSort>> ELSE filtered
    ELSE IF Len(current) >= maxSorts
         THEN Tail(current) \o <<Cfg(field, "desc")>>
         ELSE current \o <<Cfg(field, "desc")>>

\* (the newest entry is evicted instead of the oldest)
ToggleUpdater_EvictLast(current, field) ==
    LET existingIndex == findIndex(current, field) IN
    IF existingIndex # 0
    THEN IF current[existingIndex].order = "desc"
         THEN [current EXCEPT ![existingIndex] = Cfg(field, "asc")]
         ELSE LET filtered == RemoveAt(current, existingIndex) IN
              IF Len(filtered) = 0 THEN <<defaultSort>> ELSE filtered
    ELSE IF Len(current) >= maxSorts
         THEN SubSeq(current, 1, Len(current) - 1) \o <<Cfg(field, "desc")>>
         ELSE current \o <<Cfg(field, "desc")>>

\* (no return to the default when the last entry is removed)
ToggleUpdater_NoReset(current, field) ==
    LET existingIndex == findIndex(current, field) IN
    IF existingIndex # 0
    THEN IF current[existingIndex].order = "desc"
         THEN [current EXCEPT ![existingIndex] = Cfg(field, "asc")]
         ELSE RemoveAt(current, existingIndex)
    ELSE IF Len(current) >= maxSorts
         THEN Tail(current) \o <<Cfg(field, "desc")>>
         ELSE current \o <<Cfg(field, "desc")>>

\* (a desc entry is moved to the end when it becomes asc)
ToggleUpdater_FlipToEnd(current, field) ==
    LET existingIndex == findIndex(current, field) IN
    IF existingIndex # 0
    THEN IF current[existingIndex].order = "desc"
         THEN RemoveAt(current, existingIndex) \o <<Cfg(field, "asc")>>
         ELSE LET filtered == RemoveAt(current, existingIndex) IN
              IF Len(filtered) = 0 THEN <<defaultSort>> ELSE filtered
    ELSE IF Len(current) >= maxSorts
         THEN Tail(current) \o <<Cfg(field, "desc")>>
         ELSE current \o <<Cfg(field, "desc")>>

\* the updater passed to setSortConfigs in toggleSort
ToggleUpdater(current, field) ==
    LET existingIndex == findIndex(current, field) IN
    IF existingIndex # 0
    THEN IF current[existingIndex].order = "desc"
         THEN [current EXCEPT ![existingIndex] = Cfg(field, "asc")]
         ELSE LET filtered == RemoveAt(current, existingIndex) IN
              IF Len(filtered) = 0 THEN <<defaultSort>> ELSE filtered
    ELSE IF Len(current) >= maxSorts
         THEN Tail(current) \o <<Cfg(field, "desc")>>
         ELSE current \o <<Cfg(field, "desc")>>

\* the length of the run of toggleSort(field) calls that started with field OFF
NextRing(field) ==
    IF findIndex(sortConfigs, field) = 0 THEN 1
    ELSE IF lastCall = [op |-> "toggleSort", field |-> field] /\ ring \in 1..2
         THEN ring + 1
         ELSE 0

toggleSort(field) ==
    /\ lastCall' = [op |-> "toggleSort", field |-> field]
    /\ prevConfigs' = sortConfigs
    /\ IF FindThrows(sortConfigs, field)
       THEN /\ threw' = TRUE
            /\ ring' = 0
            /\ UNCHANGED sortConfigs
       ELSE /\ threw' = FALSE
            /\ ring' = NextRing(field)
            /\ sortConfigs' = ToggleUpdater(sortConfigs, field)
    /\ UNCHANGED <<options, markets, sortResult, cmp, dataVars, utilVars, moreVars>>

\* faulty variant: clears to the empty chain
clearSorts_Empty ==
    /\ lastCall' = [op |-> "clearSorts", field |-> "none"]
    /\ prevConfigs' = sortConfigs
    /\ sortConfigs' = <<>>
    /\ threw' = FALSE
    /\ ring' = 0
    /\ UNCHANGED <<options, markets, sortResult, cmp, dataVars, utilVars, moreVars>>

\* setSortConfigs([defaultSort])
clearSorts ==
    /\ lastCall' = [op |-> "clearSorts", field |-> "none"]
    /\ prevConfigs' = sortConfigs
    /\ sortConfigs' = <<defaultSort>>
    /\ threw' = FALSE
    /\ ring' = 0
    /\ UNCHANGED <<options, markets, sortResult, cmp, dataVars, utilVars, moreVars>>

\* ------------------------------------------------------------ RAG classifier
\* RAG_PRIORITY: higher = better
RAG_PRIORITY == [green |-> 2, amber |-> 1, red |-> 0]

compareRAGStatus(a, b) == RAG_PRIORITY[a] - RAG_PRIORITY[b]

\* -------------------------------------------------------- market comparators
\* the market names in use, in the collation order of localeCompare
CollationOrder == <<"BTC/USDT", "ETH/USDT">>

CollationRank(name) == CHOOSE i \in 1..Len(CollationOrder) : CollationOrder[i] = name

\* String.prototype.localeCompare: negative, zero or positive
localeCompare(x, y) ==
    IF CollationRank(x) < CollationRank(y) THEN -1
    ELSE IF CollationRank(x) > CollationRank(y) THEN 1
    ELSE 0

compareByMarket(a, b) == localeCompare(a.market, b.market)

compareBySpread(a, b) ==
    IF a.spread.isNull /\ b.spread.isNull THEN 0
    ELSE IF a.spread.isNull THEN 1
    ELSE IF b.spread.isNull THEN -1
    ELSE a.spread.v - b.spread.v

compareByVolume(a, b) == a.volume24h - b.volume24h

compareByPrice(a, b) == a.lastPrice - b.lastPrice

\* const ragOrder = { green: 0, amber: 1, red: 2 }
ragOrder == [green |-> 0, amber |-> 1, red |-> 2]

\* faulty variant: ranks by RAG_PRIORITY
compareByRAGStatus_ByPriority(a, b) == RAG_PRIORITY[a.ragStatus] - RAG_PRIORITY[b.ragStatus]

compareByRAGStatus(a, b) == ragOrder[a.ragStatus] - ragOrder[b.ragStatus]

compareByField(a, b, field) ==
    CASE field = "market" -> compareByMarket(a, b)
      [] field = "spread" -> compareBySpread(a, b)
      [] field = "volume" -> compareByVolume(a, b)
      [] field = "price" -> compareByPrice(a, b)
      [] field = "ragStatus" -> compareByRAGStatus(a, b)
      [] OTHER -> 0

\* ------------------------------------------------------------- market records
\* the fields of MarketData that sorting reads, and tickerId as identity
Market(t, m, s, v, p, r) ==
    [tickerId |-> t, market |-> m, spread |-> s, volume24h |-> v,
     lastPrice |-> p, ragStatus |-> r]

\* the records market lists are built from: null and non-null spreads, ties
\* on single fields, and two records (T1, T2) that tie on every sort field
Pool ==
    { Market("T1", "BTC/USDT", Num(1), 100, 1, "green"),
      Market("T2", "BTC/USDT", Num(1), 100, 1, "green"),
      Market("T3", "ETH/USDT", NullNum, 100, 2, "red"),
      Market("T4", "BTC/USDT", Num(3), 200, 1, "amber"),
      Market("T5", "ETH/USDT", NullNum, 200, 2, "red"),
      Market("T6", "ETH/USDT", Num(3), 200, 2, "amber") }

\* market lists: up to MaxLen records with distinct tickerIds
MarketLists ==
    UNION { { ms \in [1..n -> Pool] :
                \A i, j \in 1..n : i # j => ms[i].tickerId # ms[j].tickerId }
            : n \in 0..MaxLen }

\* ---------------------------------------------------------------- sortMarkets
\* the comparator passed to Array.prototype.sort, from chain entry i on
RECURSIVE CompareFrom(_, _, _, _)
CompareFrom(a, b, chain, i) ==
    IF i > Len(chain) THEN 0
    ELSE LET comparison == compareByField(a, b, chain[i].field) IN
         IF comparison # 0
         THEN IF chain[i].order = "asc" THEN comparison ELSE -comparison
         ELSE CompareFrom(a, b, chain, i + 1)

Reverse(chain) == [i \in 1..Len(chain) |-> chain[Len(chain) + 1 - i]]

\* faulty variant: a full tie is reported as "greater"
Comparator_TieIsGreater(a, b, chain) ==
    LET c == CompareFrom(a, b, chain, 1) IN IF c = 0 THEN 1 ELSE c

\* faulty variant: the last chain entry has the highest priority
Comparator_ReversedPriority(a, b, chain) == CompareFrom(a, b, Reverse(chain), 1)

Comparator(a, b, chain) == CompareFrom(a, b, chain, 1)

\* config.field on a null entry throws a TypeError; the entry is reached when
\* every earlier entry ties
ComparatorThrows(a, b, chain) ==
    \E i \in 1..Len(chain) :
        /\ chain[i] = NullConfig
        /\ \A j \in 1..(i - 1) : compareByField(a, b, chain[j].field) = 0

\* Array.prototype.sort is stable (ECMAScript 2019): insert x after every
\* element that does not compare greater than it
RECURSIVE InsertSorted(_, _, _)
InsertSorted(s, x, chain) ==
    IF s = <<>> THEN <<x>>
    ELSE IF Comparator(s[Len(s)], x, chain) > 0
         THEN InsertSorted(SubSeq(s, 1, Len(s) - 1), x, chain) \o <<s[Len(s)]>>
         ELSE s \o <<x>>

RECURSIVE ArraySort(_, _)
ArraySort(ms, chain) ==
    IF ms = <<>> THEN <<>>
    ELSE InsertSorted(ArraySort(SubSeq(ms, 1, Len(ms) - 1), chain), ms[Len(ms)], chain)

\* the comparator runs as soon as the list has two elements
SortThrows(ms, chain) ==
    \E i, j \in 1..Len(ms) : i < j /\ ComparatorThrows(ms[i], ms[j], chain)

\* [...markets].sort(comparator)
SortMarketsResult(ms, chain) ==
    IF SortThrows(ms, chain)
    THEN [status |-> "TypeError", value |-> <<>>]
    ELSE [status |-> "returned", value |-> ArraySort(ms, chain)]

sortMarkets(ms) ==
    /\ markets' = ms
    /\ sortResult' = SortMarketsResult(ms, sortConfigs)
    /\ UNCHANGED <<hookVars, cmp, dataVars, utilVars, moreVars>>

\* compareByField(a, b, field), and compareRAGStatus on the same two records
compareCall(a, b, field) ==
    /\ cmp' = [status |-> "done", a |-> a, b |-> b, field |-> field,
               byField |-> compareByField(a, b, field),
               byPriority |-> compareRAGStatus(a.ragStatus, b.ragStatus)]
    /\ UNCHANGED <<hookVars, markets, sortResult, dataVars, utilVars, moreVars>>

\* --------------------------------------------------------- JavaScript numbers
\* A value of type number | null | undefined is a record [kind, m, e]. A
\* finite number is m * 2^e in canonical form (m odd, or m = 0 and e = 0), so
\* that === is record equality. Arithmetic rounds to Precision significant
\* bits, to nearest, ties to even, as IEEE-754 arithmetic does with 53 bits;
\* exponents are not limited (no overflow to Infinity, no underflow).
Null == [kind |-> "null", m |-> 0, e |-> 0]

Undefined == [kind |-> "undefined", m |-> 0, e |-> 0]

NaN == [kind |-> "NaN", m |-> 0, e |-> 0]

PosInfinity == [kind |-> "Infinity", m |-> 0, e |-> 0]

NegInfinity == [kind |-> "-Infinity", m |-> 0, e |-> 0]

RECURSIVE Dy(_, _)
Dy(m, e) ==
    IF m = 0 THEN [kind |-> "number", m |-> 0, e |-> 0]
    ELSE IF m % 2 = 0 THEN Dy(m \div 2, e + 1)
    ELSE [kind |-> "number", m |-> m, e |-> e]

RECURSIVE Pow2(_)
Pow2(n) == IF n <= 0 THEN 1 ELSE 2 * Pow2(n - 1)

Min2(x, y) == IF x < y THEN x ELSE y

\* the integer x / 2^E, for E at most the exponent of x
Scaled(x, E) == x.m * Pow2(x.e - E)

Lt(x, y) == LET E == Min2(x.e, y.e) IN Scaled(x, E) < Scaled(y, E)

Le(x, y) == LET E == Min2(x.e, y.e) IN Scaled(x, E) <= Scaled(y, E)

\* the positive rational (n / d) * 2^e rounded to Precision significant bits
RECURSIVE RoundAt(_, _, _)
RoundAt(n, d, e) ==
    IF n < Pow2(Precision - 1) * d THEN RoundAt(2 * n, d, e - 1)
    ELSE IF n >= Pow2(Precision) * d THEN RoundAt(n, 2 * d, e + 1)
    ELSE LET q == n \div d
             r == n % d
             up == (2 * r > d) \/ (2 * r = d /\ q % 2 = 1)
         IN  Dy(IF up THEN q + 1 ELSE q, e)

\* -x
Neg(x) == Dy(0 - x.m, x.e)

\* rounding is symmetric about zero
Round(n, d, e) ==
    IF n = 0 THEN Dy(0, 0)
    ELSE IF n < 0 THEN Neg(RoundAt(0 - n, d, e))
    ELSE RoundAt(n, d, e)

\* x + y, x / y and x * y on non-negative finite numbers, x - y on any two
FAdd(x, y) == LET E == Min2(x.e, y.e) IN Round(Scaled(x, E) + Scaled(y, E), 1, E)

FSub(x, y) == LET E == Min2(x.e, y.e) IN Round(Scaled(x, E) - Scaled(y, E), 1, E)

FDiv(x, y) == Round(x.m, y.m, x.e - y.e)

FMul(x, y) == Round(x.m * y.m, 1, x.e + y.e)

\* Number.isFinite
IsFinite(x) == x.kind = "number"

\* the values handed to the spread utilities
FiniteNumbers ==
    { Dy(s * m, e) : s \in {-1, 1}, m \in 0..MaxMant, e \in (0 - MaxExp)..MaxExp }

JSNumbers == {Null, Undefined, NaN, PosInfinity, NegInfinity} \cup FiniteNumbers

\* ------------------------------------------------------- spread utilities
\* RAG_THRESHOLD.GREEN_MAX
GREEN_MAX == Dy(2, 0)

\* faulty variant: a spread of exactly GREEN_MAX is amber
classifyRAG_Strict(spread) ==
    IF spread = Null \/ ~IsFinite(spread) THEN "red"
    ELSE IF Lt(spread, GREEN_MAX) THEN "green"
    ELSE "amber"

classifyRAG(spread) ==
    IF spread = Null \/ ~IsFinite(spread) THEN "red"
    ELSE IF Le(spread, GREEN_MAX) THEN "green"
    ELSE "amber"

\* faulty variant: a crossed book yields 0
calculateSpread_CrossedIsZero(bid, ask) ==
    IF bid \in {Null, Undefined} \/ ask \in {Null, Undefined} THEN Null
    ELSE IF ~IsFinite(bid) \/ ~IsFinite(ask) THEN Null
    ELSE IF Le(bid, Dy(0, 0)) \/ Le(ask, Dy(0, 0)) THEN Null
    ELSE IF Lt(ask, bid) THEN Dy(0, 0)
    ELSE IF bid = ask THEN Dy(0, 0)
    ELSE LET midPrice == FDiv(FAdd(bid, ask), Dy(2, 0))
         IN  FMul(FDiv(FSub(ask, bid), midPrice), Dy(100, 0))

\* faulty variant: the spread relative to the bid
calculateSpread_BidRelative(bid, ask) ==
    IF bid \in {Null, Undefined} \/ ask \in {Null, Undefined} THEN Null
    ELSE IF ~IsFinite(bid) \/ ~IsFinite(ask) THEN Null
    ELSE IF Le(bid, Dy(0, 0)) \/ Le(ask, Dy(0, 0)) THEN Null
    ELSE IF Lt(ask, bid) THEN Null
    ELSE IF bid = ask THEN Dy(0, 0)
    ELSE FMul(FDiv(FSub(ask, bid), bid), Dy(100, 0))

calculateSpread(bid, ask) ==
    IF bid \in {Null, Undefined} \/ ask \in {Null, Undefined} THEN Null
    ELSE IF ~IsFinite(bid) \/ ~IsFinite(ask) THEN Null
    ELSE IF Le(bid, Dy(0, 0)) \/ Le(ask, Dy(0, 0)) THEN Null
    ELSE IF Lt(ask, bid) THEN Null
    ELSE IF bid = ask THEN Dy(0, 0)
    ELSE LET midPrice == FDiv(FAdd(bid, ask), Dy(2, 0))
         IN  FMul(FDiv(FSub(ask, bid), midPrice), Dy(100, 0))

\* return ask - bid
calculateAbsoluteSpread(bid, ask) ==
    IF bid \in {Null, Undefined} \/ ask \in {Null, Undefined} THEN Null
    ELSE IF ~IsFinite(bid) \/ ~IsFinite(ask) THEN Null
    ELSE IF Le(bid, Dy(0, 0)) \/ Le(ask, Dy(0, 0)) THEN Null
    ELSE FSub(ask, bid)

NoCalc == [op |-> "none", bid |-> Null, ask |-> Null, spread |-> Null,
           result |-> Null, absolute |-> Null, rag |-> "none"]

calculateSpreadCall(bid, ask) ==
    /\ calc' = [op |-> "calculateSpread", bid |-> bid, ask |-> ask,
                spread |-> Null, result |-> calculateSpread(bid, ask),
                absolute |-> Null, rag |-> "none"]
    /\ UNCHANGED <<hookVars, markets, sortResult, cmp, dataVars, filt, valid, moreVars>>

\* calculateAbsoluteSpread(bid, ask), next to what calculateSpread returns for
\* the same two values
calculateAbsoluteSpreadCall(bid, ask) ==
    /\ calc' = [op |-> "calculateAbsoluteSpread", bid |-> bid, ask |-> ask,
                spread |-> Null, result |-> calculateSpread(bid, ask),
                absolute |-> calculateAbsoluteSpread(bid, ask), rag |-> "none"]
    /\ UNCHANGED <<hookVars, markets, sortResult, cmp, dataVars, filt, valid, moreVars>>

classifyRAGCall(spread) ==
    /\ calc' = [calc EXCEPT !.op = "classifyRAG", !.spread = spread,
                            !.rag = classifyRAG(spread)]
    /\ UNCHANGED <<hookVars, markets, sortResult, cmp, dataVars, filt, valid, moreVars>>

\* ------------------------------------------------------------- useMarketData
\* a validated trading pair and a validated market summary, as kangaApi
\* returns them; bid and ask are numbers or null
Pair(base, target) ==
    [ticker_id |-> base \o "_" \o target, base |-> base, target |-> target]

Summary(id, bid, ask, price, volume) ==
    [ticker_id |-> id, bid |-> bid, ask |-> ask, last_price |-> price,
     base_volume |-> volume, high |-> Dy(price, 0), low |-> Dy(price, 0)]

\* the answers of GET /market/pairs: distinct ticker ids, in several orders
PairResponses ==
    { <<>>,
      <<Pair("BTC", "USDT"), Pair("ETH", "USDT")>>,
      <<Pair("ETH", "USDT"), Pair("BTC", "USDT"), Pair("KNG", "PLN")>> }

\* the answers of GET /market/summary: no summary for some pairs, a summary
\* for no pair, equal volumes, a ticker id listed twice, bid or ask null, a
\* crossed book
SummaryResponses ==
    { <<Summary("ETH_USDT", Dy(62, 0), Dy(63, 0), 2, 100),
        Summary("BTC_USDT", Dy(32, 0), Dy(33, 0), 9, 100)>>,
      <<Summary("BTC_USDT", Null, Dy(3, 0), 9, 100),
        Summary("ETH_USDT", Dy(3, 0), Dy(2, 0), 2, 200),
        Summary("BTC_USDT", Dy(3, 0), Dy(3, 0), 8, 300)>>,
      <<Summary("XRP_USDT", Dy(1, 0), Dy(2, 0), 1, 400),
        Summary("KNG_PLN", Dy(1, -2), Dy(32, 0), 1, 100)>> }

\* new Map(summaries.map((s) => [s.ticker_id, s])).get(id): a later entry
\* replaces an earlier one with the same key
HasSummary(summaries, id) == \E i \in 1..Len(summaries) : summaries[i].ticker_id = id

SummaryFor(summaries, id) ==
    LET last == CHOOSE i \in 1..Len(summaries) :
                    /\ summaries[i].ticker_id = id
                    /\ \A j \in (i + 1)..Len(summaries) : summaries[j].ticker_id # id
    IN  summaries[last]

\* the record built for one pair from its summary; has is FALSE when the
\* lookup returned undefined
ProcessedMarket(pair, has, summary) ==
    LET bid == IF has THEN summary.bid ELSE Null
        ask == IF has THEN summary.ask ELSE Null
        spread == calculateSpread(bid, ask)
    IN  [tickerId |-> pair.ticker_id,
         market |-> pair.base \o "/" \o pair.target,
         baseSymbol |-> pair.base,
         targetSymbol |-> pair.target,
         highestBid |-> bid,
         lowestAsk |-> ask,
         spread |-> spread,
         spreadPercentage |-> spread,
         ragStatus |-> classifyRAG(spread),
         lastPrice |-> IF has THEN summary.last_price ELSE 0,
         volume24h |-> IF has THEN summary.base_volume ELSE 0,
         high24h |-> IF has THEN summary.high ELSE Undefined,
         low24h |-> IF has THEN summary.low ELSE Undefined]

\* faulty variant: the i-th pair is joined to the i-th summary
Assemble_ByPosition(pairs, summaries) ==
    [i \in 1..Len(pairs) |->
        ProcessedMarket(pairs[i], i <= Len(summaries),
                        IF i <= Len(summaries) THEN summaries[i] ELSE Null)]

\* pairs.map((pair) => ...)
Assemble(pairs, summaries) ==
    [i \in 1..Len(pairs) |->
        LET has == HasSummary(summaries, pairs[i].ticker_id)
        IN  ProcessedMarket(pairs[i], has,
                            IF has THEN SummaryFor(summaries, pairs[i].ticker_id)
                            ELSE Null)]

\* (a, b) => b.volume24h - a.volume24h
byVolumeDesc(a, b) == b.volume24h - a.volume24h

\* faulty variant: a record is placed before the records it ties with
VolumeInsert_BeforeTies(s, x) ==
    LET n == Cardinality({i \in 1..Len(s) : byVolumeDesc(s[i], x) < 0})
    IN  SubSeq(s, 1, n) \o <<x>> \o SubSeq(s, n + 1, Len(s))

\* Array.prototype.sort is stable: x goes after every element that does not
\* compare greater than it
RECURSIVE VolumeInsert(_, _)
VolumeInsert(s, x) ==
    IF s = <<>> THEN <<x>>
    ELSE IF byVolumeDesc(s[Len(s)], x) > 0
         THEN VolumeInsert(SubSeq(s, 1, Len(s) - 1), x) \o <<s[Len(s)]>>
         ELSE s \o <<x>>

RECURSIVE VolumeSort(_)
VolumeSort(ms) ==
    IF ms = <<>> THEN <<>>
    ELSE VolumeInsert(VolumeSort(SubSeq(ms, 1, Len(ms) - 1)), ms[Len(ms)])

\* processedMarkets after processedMarkets.sort(...)
ProcessedMarkets(pairs, summaries) == VolumeSort(Assemble(pairs, summaries))

\* one request of a fetchMarkets call
Pending == [status |-> "pending", data |-> <<>>]

Rejected == [status |-> "rejected", data |-> <<>>]

Resolved(data) == [status |-> "resolved", data |-> data]

\* the promise Promise.all([getMarketPairs(), getMarketSummary()])
PromiseAll(call) ==
    IF call.pairs.status = "rejected" \/ call.summary.status = "rejected" THEN "rejected"
    ELSE IF call.pairs.status = "resolved" /\ call.summary.status = "resolved" THEN "fulfilled"
    ELSE "pending"

\* Date values: new Date() of the call that set lastUpdated
NullDate == [isNull |-> TRUE, by |-> 0]

DateOf(i) == [isNull |-> FALSE, by |-> i]

DataIdle ==
    /\ marketsState = <<>>
    /\ loading = TRUE
    /\ error = "null"
    /\ lastUpdated = NullDate
    /\ calls = <<>>
    /\ lastSuccess = 0
    /\ lastEvent = [kind |-> "init", id |-> 0]
    /\ prevMarkets = <<>>
    /\ prevUpdated = NullDate

\* fetchMarkets up to the await; the mount effect makes the first call,
\* refresh() every later one
fetchMarkets ==
    /\ Len(calls) < MaxCalls
    /\ loading' = TRUE
    /\ error' = "null"
    /\ calls' = Append(calls, [pairs |-> Pending, summary |-> Pending,
                               outcome |-> "pending", seen |-> lastSuccess,
                               open |-> {j \in 1..Len(calls) :
                                            calls[j].outcome = "pending"}])
    /\ lastEvent' = [kind |-> "start", id |-> Len(calls) + 1]
    /\ prevMarkets' = marketsState
    /\ prevUpdated' = lastUpdated
    /\ UNCHANGED <<marketsState, lastUpdated, lastSuccess>>
    /\ UNCHANGED <<hookVars, markets, sortResult, cmp, utilVars, moreVars>>

\* faulty variant: a response that belongs to an earlier call than the one
\* displayed is dropped
TryCompletes_LatestStartedWins(i, call) ==
    /\ IF i > lastSuccess
       THEN /\ marketsState' = ProcessedMarkets(call.pairs.data, call.summary.data)
            /\ lastUpdated' = DateOf(i)
       ELSE UNCHANGED <<marketsState, lastUpdated>>
    /\ loading' = FALSE
    /\ UNCHANGED error

\* the rest of the try block after the await, then finally
TryCompletes(i, call) ==
    /\ marketsState' = ProcessedMarkets(call.pairs.data, call.summary.data)
    /\ lastUpdated' = DateOf(i)
    /\ loading' = FALSE
    /\ UNCHANGED error

\* faulty variant: the records are assembled from whatever has arrived
CatchRuns_PartialAssembly(i, call) ==
    /\ marketsState' = ProcessedMarkets(call.pairs.data, call.summary.data)
    /\ error' = "Error"
    /\ loading' = FALSE
    /\ UNCHANGED lastUpdated

\* the catch block, then finally
CatchRuns(i, call) ==
    /\ error' = "Error"
    /\ loading' = FALSE
    /\ UNCHANGED <<marketsState, lastUpdated>>

\* a request of call i settles, which turns the call into newCall; the
\* continuation of fetchMarkets runs when this settles the Promise.all
Settle(i, newCall) ==
    LET before == PromiseAll(calls[i])
        after == PromiseAll(newCall)
    IN  /\ prevMarkets' = marketsState
        /\ prevUpdated' = lastUpdated
        /\ IF before = "pending" /\ after = "fulfilled"
           THEN /\ TryCompletes(i, newCall)
                /\ calls' = [calls EXCEPT ![i] = [newCall EXCEPT !.outcome = "succeeded"]]
                /\ lastSuccess' = i
                /\ lastEvent' = [kind |-> "success", id |-> i]
           ELSE IF before = "pending" /\ after = "rejected"
           THEN /\ CatchRuns(i, newCall)
                /\ calls' = [calls EXCEPT ![i] = [newCall EXCEPT !.outcome = "failed"]]
                /\ lastEvent' = [kind |-> "failure", id |-> i]
                /\ UNCHANGED lastSuccess
           ELSE /\ calls' = [calls EXCEPT ![i] = newCall]
                /\ lastEvent' = [kind |-> "ignored", id |-> i]
                /\ UNCHANGED <<marketsState, loading, error, lastUpdated, lastSuccess>>
        /\ UNCHANGED <<hookVars, markets, sortResult, cmp, utilVars, moreVars>>

getMarketPairsResolves(i, data) ==
    /\ i \in 1..Len(calls)
    /\ calls[i].pairs.status = "pending"
    /\ Settle(i, [calls[i] EXCEPT !.pairs = Resolved(data)])

getMarketPairsRejects(i) ==
    /\ i \in 1..Len(calls)
    /\ calls[i].pairs.status = "pending"
    /\ Settle(i, [calls[i] EXCEPT !.pairs = Rejected])

getMarketSummaryResolves(i, data) ==
    /\ i \in 1..Len(calls)
    /\ calls[i].summary.status = "pending"
    /\ Settle(i, [calls[i] EXCEPT !.summary = Resolved(data)])

getMarketSummaryRejects(i) ==
    /\ i \in 1..Len(calls)
    /\ calls[i].summary.status = "pending"
    /\ Settle(i, [calls[i] EXCEPT !.summary = Rejected])

\* ---------------------------------------------------------- useMarketFiltering
\* For filtering, a JavaScript string is the sequence of its characters, and
\* a field of a record is [present, s]: present is FALSE for undefined.
Field(s) == [present |-> TRUE, s |-> s]

AbsentField == [present |-> FALSE, s |-> <<>>]

\* String.prototype.toLowerCase on the characters in use
LowerChar(c) ==
    CASE c = "B" -> "b"
      [] c = "C" -> "c"
      [] c = "D" -> "d"
      [] c = "E" -> "e"
      [] c = "H" -> "h"
      [] c = "L" -> "l"
      [] c = "N" -> "n"
      [] c = "P" -> "p"
      [] c = "S" -> "s"
      [] c = "T" -> "t"
      [] c = "U" -> "u"
      [] OTHER -> c

toLowerCase(s) == [i \in 1..Len(s) |-> LowerChar(s[i])]

IsSpace(c) == c = " "

\* String.prototype.trim
RECURSIVE trim(_)
trim(s) ==
    IF s = <<>> THEN s
    ELSE IF IsSpace(s[1]) THEN trim(Tail(s))
    ELSE IF IsSpace(s[Len(s)]) THEN trim(SubSeq(s, 1, Len(s) - 1))
    ELSE s

\* String.prototype.includes
includes(s, t) ==
    \E i \in 0..(Len(s) - Len(t)) : SubSeq(s, i + 1, i + Len(t)) = t

MarketSearchFields == {"market", "tickerId", "baseSymbol", "targetSymbol"}

\* the records that are filtered: BTC as a base and as a target symbol, a
\* record in lower case, a record whose symbols are undefined
SearchRecord(t, m, b, q) ==
    [tickerId |-> t, market |-> m, baseSymbol |-> b, targetSymbol |-> q]

SearchPool ==
    { SearchRecord(Field(<<"B", "T", "C", "_", "P", "L", "N">>),
                   Field(<<"B", "T", "C", "/", "P", "L", "N">>),
                   Field(<<"B", "T", "C">>), Field(<<"P", "L", "N">>)),
      SearchRecord(Field(<<"E", "T", "H", "_", "B", "T", "C">>),
                   Field(<<"E", "T", "H", "/", "B", "T", "C">>),
                   Field(<<"E", "T", "H">>), Field(<<"B", "T", "C">>)),
      SearchRecord(Field(<<"e", "t", "h", "_", "p", "l", "n">>),
                   Field(<<"e", "t", "h", " ", "p", "l", "n">>),
                   AbsentField, AbsentField) }

SearchLists == UNION { [1..n -> SearchPool] : n \in 0..MaxRecords }

QueryChars == {"b", "T", "c", " ", "/"}

Queries == UNION { [1..n -> QueryChars] : n \in 0..MaxQuery }

\* the searchFields option: omitted (all four fields), or a list of fields
SearchFieldOptions ==
    { MarketSearchFields, {"market", "tickerId"}, {"baseSymbol"}, {} }

\* faulty variant: the field value is compared as it is written
filterMarkets_CaseSensitive(ms, query, searchFields) ==
    IF trim(query) = <<>> THEN ms
    ELSE LET searchTerm == trim(toLowerCase(query))
             keep(market) ==
                 \E field \in searchFields :
                     /\ market[field].present
                     /\ market[field].s # <<>>
                     /\ includes(market[field].s, searchTerm)
         IN  SelectSeq(ms, keep)

filterMarkets(ms, query, searchFields) ==
    IF trim(query) = <<>> THEN ms
    ELSE LET searchTerm == trim(toLowerCase(query))
             keep(market) ==
                 \E field \in searchFields :
                     /\ market[field].present
                     /\ market[field].s # <<>>
                     /\ includes(toLowerCase(market[field].s), searchTerm)
         IN  SelectSeq(ms, keep)

NoFilter == [status |-> "none"]

filterMarketsCall(ms, query, searchFields) ==
    /\ filt' = [status |-> "done", markets |-> ms, query |-> query,
                searchFields |-> searchFields,
                result |-> filterMarkets(ms, query, searchFields)]
    /\ UNCHANGED <<hookVars, markets, sortResult, cmp, dataVars, calc, valid, moreVars>>

\* ------------------------------------------------------------------ validators
\* A raw JSON value of a numeric field of a summary item: the key is missing
\* (undefined), null, the empty string, a blank string, a string that is not
\* a number, or the decimal string of the integer n.
Raw(kind, n) == [kind |-> kind, n |-> n]

Missing == Raw("missing", 0)

RawNull == Raw("null", 0)

EmptyString == Raw("empty", 0)

BlankString == Raw("blank", 0)

Text == Raw("text", 0)

NumStr(n) == Raw("numstr", n)

RawValues ==
    {Missing, RawNull, EmptyString, BlankString, Text,
     NumStr(-1), NumStr(0), NumStr(2)}

\* Number(val): NaN for undefined and for text, 0 for null and for an empty
\* or blank string
ToNumber(raw) ==
    CASE raw.kind \in {"missing", "text"} -> [nan |-> TRUE, n |-> 0]
      [] raw.kind \in {"null", "empty", "blank"} -> [nan |-> FALSE, n |-> 0]
      [] OTHER -> [nan |-> FALSE, n |-> raw.n]

\* the outcome of parsing one field: it fails, or it yields null, undefined
\* or the number n
Fails == [ok |-> FALSE, kind |-> "none", n |-> 0]

Yields(kind, n) == [ok |-> TRUE, kind |-> kind, n |-> n]

\* z.coerce.number().nonnegative(): z.number() rejects NaN
coerceNonnegative(raw) ==
    LET num == ToNumber(raw) IN
    IF num.nan \/ num.n < 0 THEN Fails ELSE Yields("number", num.n)

\* z.coerce.number().optional()
coerceOptional(raw) ==
    IF raw = Missing THEN Yields("undefined", 0)
    ELSE LET num == ToNumber(raw) IN
         IF num.nan THEN Fails ELSE Yields("number", num.n)

\* faulty variant: the empty string is not singled out and is coerced
optionalNumber_EmptyIsZero(raw) ==
    IF raw \in {Missing, RawNull} THEN Yields("null", 0)
    ELSE LET num == ToNumber(raw) IN
         IF num.nan THEN Yields("null", 0)
         ELSE IF num.n < 0 THEN Fails
         ELSE Yields("number", num.n)

\* z.preprocess(..., z.number().nonnegative().nullable())
optionalNumber(raw) ==
    IF raw \in {Missing, RawNull, EmptyString} THEN Yields("null", 0)
    ELSE LET num == ToNumber(raw) IN
         IF num.nan THEN Yields("null", 0)
         ELSE IF num.n < 0 THEN Fails
         ELSE Yields("number", num.n)

RequiredNumbers ==
    {"lowest_price_24h", "highest_price_24h", "base_volume", "quote_volume",
     "last_price"}

OptionalNumbers == {"highest_bid", "lowest_ask"}

NumericFields == RequiredNumbers \cup OptionalNumbers \cup {"price_change_percent_24h"}

\* RawMarketSummaryItemSchema applied to one field of an item
ParseField(item, f) ==
    IF f \in RequiredNumbers THEN coerceNonnegative(item[f])
    ELSE IF f \in OptionalNumbers THEN optionalNumber(item[f])
    ELSE coerceOptional(item[f])

\* RawMarketSummaryItemSchema accepts the item; trading_pairs: min(1)
ItemParses(item) ==
    /\ item.trading_pairs # <<>>
    /\ \A f \in NumericFields : ParseField(item, f).ok

\* trading_pairs.split(separator): the text before the first separator and
\* the text between the first and the second one ('' when there is none)
\* faulty variant: only '_' separates
SeparatorAt_UnderscoreOnly(s) == {i \in 1..Len(s) : s[i] = "_"}

SeparatorAt(s) ==
    LET sep == IF \E i \in 1..Len(s) : s[i] = "-" THEN "-" ELSE "_"
    IN  {i \in 1..Len(s) : s[i] = sep}

FirstOf(S) == CHOOSE i \in S : \A j \in S : i <= j

SplitBase(s) ==
    IF SeparatorAt(s) = {} THEN s ELSE SubSeq(s, 1, FirstOf(SeparatorAt(s)) - 1)

SplitTarget(s) ==
    IF SeparatorAt(s) = {} THEN <<>>
    ELSE LET first == FirstOf(SeparatorAt(s))
             rest == {i \in SeparatorAt(s) : i > first}
         IN  IF rest = {} THEN SubSeq(s, first + 1, Len(s))
             ELSE SubSeq(s, first + 1, FirstOf(rest) - 1)

\* a parsed optional number as a number | null
AsNumber(parsed) == IF parsed.kind = "number" THEN Dy(parsed.n, 0) ELSE Null

\* the application-level summary made of a parsed item
Transform(item) ==
    [ticker_id |-> SplitBase(item.trading_pairs) \o <<"_">> \o SplitTarget(item.trading_pairs),
     base_currency |-> SplitBase(item.trading_pairs),
     target_currency |-> SplitTarget(item.trading_pairs),
     last_price |-> ParseField(item, "last_price").n,
     base_volume |-> ParseField(item, "base_volume").n,
     target_volume |-> ParseField(item, "quote_volume").n,
     bid |-> AsNumber(ParseField(item, "highest_bid")),
     ask |-> AsNumber(ParseField(item, "lowest_ask")),
     high |-> Dy(ParseField(item, "highest_price_24h").n, 0),
     low |-> Dy(ParseField(item, "lowest_price_24h").n, 0)]

\* validateMarketSummary on a response { timestamp, summary }
validateMarketSummary(summary) ==
    IF \A k \in 1..Len(summary) : ItemParses(summary[k])
    THEN [status |-> "returned", value |-> [k \in 1..Len(summary) |-> Transform(summary[k])]]
    ELSE [status |-> "threw", value |-> <<>>]

\* summary items: every numeric field a non-negative decimal string
GoodItem(tradingPairs) ==
    [f \in NumericFields |-> NumStr(2)] @@ [trading_pairs |-> tradingPairs]

GoodItems ==
    { GoodItem(<<"B", "T", "C", "_", "P", "L", "N">>),
      GoodItem(<<"E", "T", "H", "-", "P", "L", "N">>),
      GoodItem(<<"E", "T", "H", "_", "P", "L", "N">>) }

\* summary items with up to MaxOdd numeric fields of any raw value
OddItems ==
    UNION { { [f \in NumericFields |-> IF f \in D THEN v[f] ELSE NumStr(2)]
                @@ [trading_pairs |-> <<"B", "T", "C", "_", "P", "L", "N">>]
              : v \in [D -> RawValues] }
            : D \in {D \in SUBSET NumericFields : Cardinality(D) <= MaxOdd} }

\* a summary array: good items, with an odd item in place of the one at
\* position p, if any
SummaryArray(good, odd, p) ==
    [k \in 1..Len(good) |-> IF k = p THEN odd ELSE good[k]]

NoValidation == [status |-> "none"]

validateMarketSummaryCall(summary) ==
    /\ valid' = [status |-> "done", summary |-> summary,
                 result |-> validateMarketSummary(summary)]
    /\ UNCHANGED <<hookVars, markets, sortResult, cmp, dataVars, calc, filt, moreVars>>

\* every variable of the spread utilities, the filter and the validators
\* before their first call
UtilIdle ==
    /\ calc = NoCalc
    /\ filt = NoFilter
    /\ valid = NoValidation

\* ------------------------------------------------------------ useMarketDepth
\* an order book entry and a validated depth snapshot (ValidatedMarketDepth);
\* prices and quantities are positive numbers
Entry(price, quantity) == [price |-> price, quantity |-> quantity]

Snapshot(id, bids, asks) ==
    [isNull |-> FALSE, ticker_id |-> id, timestamp |-> 1, bids |-> bids, asks |-> asks]

\* depth and analysis before the first successful fetch
NullDepth ==
    [isNull |-> TRUE, ticker_id |-> "", timestamp |-> 0, bids |-> <<>>, asks |-> <<>>]

\* a price range { min, max } | null
PriceRange(min, max) == [isNull |-> FALSE, min |-> min, max |-> max]

NullRange == [isNull |-> TRUE, min |-> Dy(0, 0), max |-> Dy(0, 0)]

NullAnalysis ==
    [isNull |-> TRUE, tickerId |-> "", totalBidQuantity |-> Dy(0, 0),
     totalAskQuantity |-> Dy(0, 0), bidPriceRange |-> NullRange,
     askPriceRange |-> NullRange, bidDepth |-> 0, askDepth |-> 0,
     spreadAtDepth |-> Null, timestamp |-> 0]

\* entries.reduce((sum, entry) => sum + entry.quantity, 0)
RECURSIVE SumQuantity(_)
SumQuantity(entries) ==
    IF entries = <<>> THEN Dy(0, 0)
    ELSE FAdd(SumQuantity(SubSeq(entries, 1, Len(entries) - 1)),
              entries[Len(entries)].quantity)

\* entries.map((e) => e.price)
Prices(entries) == [i \in 1..Len(entries) |-> entries[i].price]

\* Math.min(...prices) and Math.max(...prices) of a non-empty list
RECURSIVE MathMin(_)
MathMin(prices) ==
    IF Len(prices) = 1 THEN prices[1]
    ELSE LET rest == MathMin(SubSeq(prices, 1, Len(prices) - 1))
             last == prices[Len(prices)]
         IN  IF Lt(last, rest) THEN last ELSE rest

RECURSIVE MathMax(_)
MathMax(prices) ==
    IF Len(prices) = 1 THEN prices[1]
    ELSE LET rest == MathMax(SubSeq(prices, 1, Len(prices) - 1))
             last == prices[Len(prices)]
         IN  IF Lt(rest, last) THEN last ELSE rest

\* prices.length > 0 ? { min: Math.min(...prices), max: Math.max(...prices) } : null
RangeOf(prices) ==
    IF Len(prices) > 0 THEN PriceRange(MathMin(prices), MathMax(prices)) ELSE NullRange

\* faulty variant: the spread between the far ends of the two sides
SpreadAtDepth_FarEnds(bidPriceRange, askPriceRange) ==
    IF ~bidPriceRange.isNull /\ ~askPriceRange.isNull
    THEN FMul(FDiv(FSub(askPriceRange.max, bidPriceRange.min),
                   FMul(Dy(1, -1), FAdd(askPriceRange.max, bidPriceRange.min))),
              Dy(100, 0))
    ELSE Null

\* ((askPriceRange.min - bidPriceRange.max) /
\*  (0.5 * (askPriceRange.min + bidPriceRange.max))) * 100, or null
SpreadAtDepth(bidPriceRange, askPriceRange) ==
    IF ~bidPriceRange.isNull /\ ~askPriceRange.isNull
    THEN FMul(FDiv(FSub(askPriceRange.min, bidPriceRange.max),
                   FMul(Dy(1, -1), FAdd(askPriceRange.min, bidPriceRange.max))),
              Dy(100, 0))
    ELSE Null

analyzeOrderBook(depthData) ==
    LET bidPriceRange == RangeOf(Prices(depthData.bids))
        askPriceRange == RangeOf(Prices(depthData.asks))
    IN  [isNull |-> FALSE,
         tickerId |-> depthData.ticker_id,
         totalBidQuantity |-> SumQuantity(depthData.bids),
         totalAskQuantity |-> SumQuantity(depthData.asks),
         bidPriceRange |-> bidPriceRange,
         askPriceRange |-> askPriceRange,
         bidDepth |-> Len(depthData.bids),
         askDepth |-> Len(depthData.asks),
         spreadAtDepth |-> SpreadAtDepth(bidPriceRange, askPriceRange),
         timestamp |-> depthData.timestamp]

\* the entries order books are built from, and the sides of up to MaxSide
\* entries, in any order
Entries ==
    { Entry(p, q) : p \in {Dy(1, 0), Dy(2, 0), Dy(3, 0)}, q \in {Dy(1, -1), Dy(3, 0)} }

Sides == UNION { [1..n -> Entries] : n \in 0..MaxSide }

NoBook == [status |-> "none", snapshot |-> NullDepth, analysis |-> NullAnalysis]

analyzeOrderBookCall(depthData) ==
    /\ book' = [status |-> "done", snapshot |-> depthData,
                analysis |-> analyzeOrderBook(depthData)]
    /\ UNCHANGED <<hookVars, markets, sortResult, cmp, dataVars, utilVars, depthVars,
                   orchVars, apiVars>>

\* the market ids the screen passes: id || ''
MarketIds == {"", "BTC_USDT", "ETH_USDT"}

\* the order books getMarketDepth answers with
DepthBooks ==
    { <<<<>>, <<>>>>,
      <<<<Entry(Dy(1, 0), Dy(3, 0)), Entry(Dy(2, 0), Dy(1, -1))>>,
        <<Entry(Dy(3, 0), Dy(3, 0))>>>> }

NoDepthEvent ==
    [kind |-> "init", id |-> 0, depth |-> NullDepth, analysis |-> NullAnalysis,
     calls |-> 0]

DepthEvent(kind, id) ==
    [kind |-> kind, id |-> id, depth |-> depth, analysis |-> analysis,
     calls |-> Len(fetches)]

DepthIdle ==
    /\ depth = NullDepth
    /\ analysis = NullAnalysis
    /\ depthLoading = TRUE
    /\ depthError = "null"
    /\ fetches = <<>>
    /\ depthEvent = NoDepthEvent

\* faulty variant: no check of the market id
fetchDepth_NoIdCheck(id) ==
    /\ Len(fetches) < MaxFetches
    /\ depthLoading' = TRUE
    /\ depthError' = "null"
    /\ fetches' = Append(fetches, [marketId |-> id, status |-> "pending"])
    /\ depthEvent' = DepthEvent(IF id = "" THEN "empty" ELSE "start", Len(fetches) + 1)
    /\ UNCHANGED <<depth, analysis>>

\* fetchDepth of the render whose marketId is id, up to the await
fetchDepth(id) ==
    /\ IF id = ""
       THEN /\ depthError' = "Market ID is required"
            /\ depthLoading' = FALSE
            /\ depthEvent' = DepthEvent("empty", 0)
            /\ UNCHANGED fetches
       ELSE /\ Len(fetches) < MaxFetches
            /\ depthLoading' = TRUE
            /\ depthError' = "null"
            /\ fetches' = Append(fetches, [marketId |-> id, status |-> "pending"])
            /\ depthEvent' = DepthEvent("start", Len(fetches) + 1)
    /\ UNCHANGED <<depth, analysis>>

Mounted == depthEvent.kind # "init"

\* the effect of the first render
mountEffect ==
    /\ ~Mounted
    /\ fetchDepth(marketId)
    /\ UNCHANGED <<marketId, book>>
    /\ UNCHANGED <<hookVars, markets, sortResult, cmp, dataVars, utilVars, orchVars,
                   apiVars>>

\* a render with another marketId: fetchDepth is a new function, so the
\* effect runs it
setMarketId(id) ==
    /\ Mounted
    /\ id # marketId
    /\ marketId' = id
    /\ fetchDepth(id)
    /\ UNCHANGED book
    /\ UNCHANGED <<hookVars, markets, sortResult, cmp, dataVars, utilVars, orchVars,
                   apiVars>>

\* refresh()
refreshDepth ==
    /\ Mounted
    /\ fetchDepth(marketId)
    /\ UNCHANGED <<marketId, book>>
    /\ UNCHANGED <<hookVars, markets, sortResult, cmp, dataVars, utilVars, orchVars,
                   apiVars>>

\* getMarketDepth of call i resolves: the rest of the try block, then finally.
\* validateMarketDepth gives the snapshot the market id of the request.
getMarketDepthResolves(i, bids, asks) ==
    /\ i \in 1..Len(fetches)
    /\ fetches[i].status = "pending"
    /\ fetches' = [fetches EXCEPT ![i].status = "resolved"]
    /\ depth' = Snapshot(fetches[i].marketId, bids, asks)
    /\ analysis' = analyzeOrderBook(Snapshot(fetches[i].marketId, bids, asks))
    /\ depthLoading' = FALSE
    /\ depthEvent' = DepthEvent("success", i)
    /\ UNCHANGED <<marketId, depthError, book>>
    /\ UNCHANGED <<hookVars, markets, sortResult, cmp, dataVars, utilVars, orchVars,
                   apiVars>>

\* getMarketDepth of call i rejects: the catch block, then finally
getMarketDepthRejects(i) ==
    /\ i \in 1..Len(fetches)
    /\ fetches[i].status = "pending"
    /\ fetches' = [fetches EXCEPT ![i].status = "rejected"]
    /\ depthError' = "Error"
    /\ depthLoading' = FALSE
    /\ depthEvent' = DepthEvent("failure", i)
    /\ UNCHANGED <<marketId, depth, analysis, book>>
    /\ UNCHANGED <<hookVars, markets, sortResult, cmp, dataVars, utilVars, orchVars,
                   apiVars>>

\* ------------------------------------------------ useFilteredAndSortedMarkets
\* the characters of the strings the market records hold
Chars(name) ==
    CASE name = "BTC/USDT" -> <<"B", "T", "C", "/", "U", "S", "D", "T">>
      [] name = "ETH/USDT" -> <<"E", "T", "H", "/", "U", "S", "D", "T">>
      [] name = "T1" -> <<"T", "1">>
      [] name = "T2" -> <<"T", "2">>
      [] name = "T3" -> <<"T", "3">>
      [] name = "T4" -> <<"T", "4">>
      [] name = "T5" -> <<"T", "5">>
      [] name = "T6" -> <<"T", "6">>

\* the fields of a market record that filtering reads; market is
\* `${base}/${target}`
SearchView(m) ==
    LET name == Chars(m.market)
        slash == CHOOSE i \in 1..Len(name) : name[i] = "/"
    IN  SearchRecord(Field(Chars(m.tickerId)), Field(name),
                     Field(SubSeq(name, 1, slash - 1)),
                     Field(SubSeq(name, slash + 1, Len(name))))

\* filterMarkets(markets, searchQuery) on market records
FilterByView(ms, query, fields) ==
    LET keep(m) == filterMarkets(<<SearchView(m)>>, query, fields) # <<>>
    IN  SelectSeq(ms, keep)

\* the body of the useMemo callback: filter, then sort
FilterAndSort(ms, query, fields, chain) ==
    SortMarketsResult(FilterByView(ms, query, fields), chain)

\* faulty variant: sortMarkets is not among the dependencies
DepsChanged_NoSort(marketsChanged, queryChanged, sortChanged) ==
    marketsChanged \/ queryChanged \/ ~searchFieldsOption.stable

\* useMemo's dependencies [markets, searchQuery, filterMarkets, sortMarkets]:
\* filterMarkets is a new function whenever searchFields is a new array,
\* sortMarkets whenever setSortConfigs stored a new chain
DepsChanged(marketsChanged, queryChanged, sortChanged) ==
    marketsChanged \/ queryChanged \/ ~searchFieldsOption.stable \/ sortChanged

\* the render that follows a step: useMemo recomputes or keeps its value
Render(marketsChanged, queryChanged, sortChanged) ==
    filteredMarkets' =
        IF DepsChanged(marketsChanged, queryChanged, sortChanged)
        THEN FilterAndSort(rawMarkets', searchQuery', searchFieldsOption.fields, sortConfigs')
        ELSE filteredMarkets

\* the component is unmounted once a render or a state update has thrown
Alive == ~threw /\ filteredMarkets.status = "returned"

\* the market sets and the queries the screen passes
OrchMarketLists ==
    { <<>>,
      <<Market("T4", "BTC/USDT", Num(3), 200, 1, "amber"),
        Market("T3", "ETH/USDT", NullNum, 100, 2, "red"),
        Market("T1", "BTC/USDT", Num(1), 100, 1, "green")>>,
      <<Market("T6", "ETH/USDT", Num(3), 200, 2, "amber"),
        Market("T2", "BTC/USDT", Num(1), 100, 1, "green")>> }

OrchQueries == { <<>>, <<"b", "T", "c">>, <<" ", "e", "t">> }

\* searchFields omitted (the default array is built on every render) or an
\* array the caller keeps
OrchSearchFields ==
    { [stable |-> FALSE, fields |-> MarketSearchFields],
      [stable |-> TRUE, fields |-> {"baseSymbol", "tickerId"}] }

OrchIdle ==
    /\ rawMarkets = <<>>
    /\ searchQuery = <<>>
    /\ searchFieldsOption = [stable |-> FALSE, fields |-> MarketSearchFields]
    /\ filteredMarkets = [status |-> "returned", value |-> <<>>]

\* toggleSort(field), then the render
orchToggleSort(field) ==
    /\ Alive
    /\ lastCall' = [op |-> "toggleSort", field |-> field]
    /\ prevConfigs' = sortConfigs
    /\ UNCHANGED <<options, rawMarkets, searchQuery, searchFieldsOption>>
    /\ IF FindThrows(sortConfigs, field)
       THEN /\ threw' = TRUE
            /\ ring' = 0
            /\ UNCHANGED <<sortConfigs, filteredMarkets>>
       ELSE /\ threw' = FALSE
            /\ ring' = NextRing(field)
            /\ sortConfigs' = ToggleUpdater(sortConfigs, field)
            /\ Render(FALSE, FALSE, TRUE)
    /\ UNCHANGED <<markets, sortResult, cmp, dataVars, utilVars, book, depthVars,
                   apiVars>>

\* clearSorts(), then the render
orchClearSorts ==
    /\ Alive
    /\ lastCall' = [op |-> "clearSorts", field |-> "none"]
    /\ prevConfigs' = sortConfigs
    /\ sortConfigs' = <<defaultSort>>
    /\ threw' = FALSE
    /\ ring' = 0
    /\ UNCHANGED <<options, rawMarkets, searchQuery, searchFieldsOption>>
    /\ Render(FALSE, FALSE, TRUE)
    /\ UNCHANGED <<markets, sortResult, cmp, dataVars, utilVars, book, depthVars,
                   apiVars>>

\* a render with another search query
setSearchQuery(query) ==
    /\ Alive
    /\ query # searchQuery
    /\ searchQuery' = query
    /\ lastCall' = [op |-> "setSearchQuery", field |-> "none"]
    /\ UNCHANGED <<options, sortConfigs, threw, prevConfigs, ring, rawMarkets, searchFieldsOption>>
    /\ Render(FALSE, TRUE, FALSE)
    /\ UNCHANGED <<markets, sortResult, cmp, dataVars, utilVars, book, depthVars,
                   apiVars>>

\* a render with another markets array (useMarketData stored a new one)
setMarkets(ms) ==
    /\ Alive
    /\ rawMarkets' = ms
    /\ lastCall' = [op |-> "setMarkets", field |-> "none"]
    /\ UNCHANGED <<options, sortConfigs, threw, prevConfigs, ring, searchQuery, searchFieldsOption>>
    /\ Render(TRUE, FALSE, FALSE)
    /\ UNCHANGED <<markets, sortResult, cmp, dataVars, utilVars, book, depthVars,
                   apiVars>>

\* ------------------------------------------------------------ KangaApiClient
\* API_RETRY_ATTEMPTS when the environment does not set it
DefaultRetryAttempts == 3

\* an AxiosError: status is the status of error.response, 0 when there is no
\* response (network error, timeout); request tells whether error.request
\* is set
AxiosError(status, request) ==
    [kind |-> "AxiosError", status |-> status, message |-> "", request |-> request]

NoError == [kind |-> "none", status |-> 0, message |-> "", request |-> FALSE]

\* an ApiError { message, status }
ApiError(message, status) ==
    [kind |-> "ApiError", status |-> status, message |-> message, request |-> FALSE]

\* the failures of one attempt: no response, 429, and statuses around the
\* limits of the 5xx range
FailureStatuses == {0, 429, 499, 500, 599, 600}

\* faulty variant: one retry too many
shouldRetry_OffByOne(err, retryCount) ==
    IF retryCount > MAX_RETRY_ATTEMPTS THEN FALSE
    ELSE IF err.status = 0 THEN TRUE
    ELSE IF err.status >= 500 /\ err.status < 600 THEN TRUE
    ELSE IF err.status = 429 THEN TRUE
    ELSE FALSE

shouldRetry(err, retryCount) ==
    IF retryCount >= MAX_RETRY_ATTEMPTS THEN FALSE
    ELSE IF err.status = 0 THEN TRUE
    ELSE IF err.status >= 500 /\ err.status < 600 THEN TRUE
    ELSE IF err.status = 429 THEN TRUE
    ELSE FALSE

getErrorMessage(status) ==
    CASE status = 400 -> "Bad Request: Invalid request parameters"
      [] status = 401 -> "Unauthorized: Authentication required"
      [] status = 403 -> "Forbidden: Access denied"
      [] status = 404 -> "Not Found: Resource not available"
      [] status = 429 -> "Too Many Requests: Please wait before retrying"
      [] status = 500 -> "Server Error: Internal server error"
      [] status = 502 -> "Bad Gateway: Server is temporarily unavailable"
      [] status = 503 -> "Service Unavailable: Server is temporarily down"
      [] status = 504 -> "Gateway Timeout: Server took too long to respond"
      [] OTHER -> "Server Error: HTTP " \o ToString(status)

\* the ApiError made of an AxiosError with a response, of one whose request
\* got no response, or of one raised before the request was made
normalizeError(err) ==
    IF err.status # 0
    THEN ApiError(getErrorMessage(err.status), err.status)
    ELSE IF err.request
    THEN ApiError("Network Error: Unable to reach server. Please check your connection.", 0)
    ELSE ApiError("Request Error: " \o err.message, 0)

IdleRequest == [phase |-> "idle", retryCount |-> 0, issued |-> 0, error |-> NoError]

ApiIdle ==
    /\ requests = [r \in 1..MaxRequests |-> IdleRequest]
    /\ MAX_RETRY_ATTEMPTS = DefaultRetryAttempts

\* axiosInstance.get(url): the first attempt of request r
get(r) ==
    /\ requests[r].phase = "idle"
    /\ requests' = [requests EXCEPT ![r] = [phase |-> "inflight", retryCount |-> 0,
                                            issued |-> 1, error |-> NoError]]
    /\ UNCHANGED <<hookVars, markets, sortResult, cmp, dataVars, utilVars, book,
                   depthVars, orchVars, MAX_RETRY_ATTEMPTS>>

\* the attempt in flight gets a 2xx response
responds(r) ==
    /\ requests[r].phase = "inflight"
    /\ requests' = [requests EXCEPT ![r].phase = "resolved", ![r].error = NoError]
    /\ UNCHANGED <<hookVars, markets, sortResult, cmp, dataVars, utilVars, book,
                   depthVars, orchVars, MAX_RETRY_ATTEMPTS>>

\* the attempt in flight fails: handleResponseError up to the sleep, or to
\* the rejection
handleResponseError(r, err, hasConfig) ==
    /\ requests[r].phase = "inflight"
    /\ requests' =
           IF ~hasConfig
           THEN [requests EXCEPT ![r].phase = "rejected",
                                 ![r].error = normalizeError(err)]
           ELSE IF shouldRetry(err, requests[r].retryCount)
           THEN [requests EXCEPT ![r].phase = "sleeping",
                                 ![r].retryCount = requests[r].retryCount + 1,
                                 ![r].error = err]
           ELSE [requests EXCEPT ![r].phase = "rejected",
                                 ![r].error = normalizeError(err)]
    /\ UNCHANGED <<hookVars, markets, sortResult, cmp, dataVars, utilVars, book,
                   depthVars, orchVars, MAX_RETRY_ATTEMPTS>>

\* the sleep ends: return this.axiosInstance(config)
sleepEnds(r) ==
    /\ requests[r].phase = "sleeping"
    /\ requests' = [requests EXCEPT ![r].phase = "inflight",
                                    ![r].issued = requests[r].issued + 1,
                                    ![r].error = NoError]
    /\ UNCHANGED <<hookVars, markets, sortResult, cmp, dataVars, utilVars, book,
                   depthVars, orchVars, MAX_RETRY_ATTEMPTS>>

\* the attempt of request r that is in flight ends, one way or the other
attemptEnds(r) ==
    \/ responds(r)
    \/ \E status \in FailureStatuses : handleResponseError(r, AxiosError(status, TRUE), TRUE)
    \/ handleResponseError(r, AxiosError(0, FALSE), FALSE)

\* every variable of useMarketDepth, useFilteredAndSortedMarkets and
\* KangaApiClient before their first step
MoreIdle ==
    /\ book = NoBook
    /\ marketId = ""
    /\ DepthIdle
    /\ OrchIdle
    /\ ApiIdle

\* ------------------------------------------------------------ specifications
Init ==
    /\ options \in OptionSpace
    /\ sortConfigs = InitialChain
    /\ threw = FALSE
    /\ lastCall = NoCall
    /\ prevConfigs = <<>>
    /\ ring = 0
    /\ markets = <<>>
    /\ sortResult = NoResult
    /\ cmp = NoCmp
    /\ DataIdle
    /\ MoreIdle
    /\ UtilIdle

Next ==
    \/ \E field \in SortFields : toggleSort(field)
    \/ clearSorts

Spec == Init /\ [][Next]_vars

\* The sort chains the hook can hold: [null] when defaultSort is null (every
\* toggleSort then throws), otherwise non-empty chains of SortConfigs with
\* pairwise distinct fields and at most maxSorts entries.
DistinctFields(chain) ==
    \A i, j \in 1..Len(chain) : i # j => chain[i].field # chain[j].field

ReachableChains ==
    IF defaultSort = NullConfig THEN {<<NullConfig>>}
    ELSE UNION { { chain \in [1..n -> SortConfigs] : DistinctFields(chain) }
                 : n \in 1..maxSorts }

\* sortMarkets applied to every market list under every chain of the hook
\* created with no options or as the Markets screen creates it
SortInit ==
    /\ options \in [defaultSort : {UndefinedConfig, NullConfig},
                    maxSorts : {DefaultMaxSorts} \cup (1..MaxCap)]
    /\ sortConfigs \in ReachableChains
    /\ threw = FALSE
    /\ lastCall = NoCall
    /\ prevConfigs = <<>>
    /\ ring = 0
    /\ markets \in MarketLists
    /\ sortResult = NoResult
    /\ cmp = NoCmp
    /\ DataIdle
    /\ MoreIdle
    /\ UtilIdle

SortNext == sortMarkets(markets)

SortSpec == SortInit /\ [][SortNext]_vars

\* the comparators applied to every pair of records
CmpNext == \E a \in Pool, b \in Pool, field \in SortFields : compareCall(a, b, field)

\* the hook as created with no options
CmpInit == Init /\ options.defaultSort = UndefinedConfig

CmpSpec == CmpInit /\ [][CmpNext]_vars

\* the hook and the utilities as used with no options
NoOptions == [defaultSort |-> UndefinedConfig, maxSorts |-> DefaultMaxSorts]

\* every variable of the sort engine before its first call, with no options
HookIdle ==
    /\ options = NoOptions
    /\ sortConfigs = InitialChain
    /\ threw = FALSE
    /\ lastCall = NoCall
    /\ prevConfigs = <<>>
    /\ ring = 0
    /\ markets = <<>>
    /\ sortResult = NoResult
    /\ cmp = NoCmp

\* calculateSpread applied to every pair of numbers, null and undefined;
\* classifyRAG (number | null) applied to each of them and to every spread
\* that calculateSpread returned
NumInit ==
    /\ HookIdle
    /\ DataIdle
    /\ MoreIdle
    /\ filt = NoFilter
    /\ valid = NoValidation
    /\ calc \in [op : {"input"}, bid : JSNumbers, ask : JSNumbers,
                  spread : {Null}, result : {Null}, absolute : {Null},
                  rag : {"none"}]

NumNext ==
    \/ calculateSpreadCall(calc.bid, calc.ask)
    \/ calculateAbsoluteSpreadCall(calc.bid, calc.ask)
    \/ \E spread \in {calc.bid, calc.result} \ {Undefined} : classifyRAGCall(spread)

NumSpec == NumInit /\ [][NumNext]_vars

\* useMarketData: fetchMarkets calls whose requests settle in any order
DataInit == Init /\ options = NoOptions

DataNext ==
    \/ fetchMarkets
    \/ \E i \in 1..MaxCalls, data \in PairResponses : getMarketPairsResolves(i, data)
    \/ \E i \in 1..MaxCalls : getMarketPairsRejects(i)
    \/ \E i \in 1..MaxCalls, data \in SummaryResponses : getMarketSummaryResolves(i, data)
    \/ \E i \in 1..MaxCalls : getMarketSummaryRejects(i)

DataSpec == DataInit /\ [][DataNext]_vars

\* filterMarkets applied to every record list under every query and every
\* searchFields option
FilterInit ==
    /\ HookIdle
    /\ DataIdle
    /\ MoreIdle
    /\ calc = NoCalc
    /\ valid = NoValidation
    /\ filt \in [status : {"input"}, markets : SearchLists, query : Queries,
                  searchFields : SearchFieldOptions, result : {<<>>}]

FilterNext == filterMarketsCall(filt.markets, filt.query, filt.searchFields)

FilterSpec == FilterInit /\ [][FilterNext]_vars

\* validateMarketSummary applied to every summary array of up to MaxItems
\* items
ValidInit ==
    /\ HookIdle
    /\ DataIdle
    /\ MoreIdle
    /\ calc = NoCalc
    /\ filt = NoFilter
    /\ \E n \in 0..MaxItems :
           \E good \in [1..n -> GoodItems], odd \in OddItems, p \in 0..n :
               valid = [status |-> "input",
                        summary |-> SummaryArray(good, odd, p),
                        result |-> [status |-> "none", value |-> <<>>]]

ValidNext == validateMarketSummaryCall(valid.summary)

ValidSpec == ValidInit /\ [][ValidNext]_vars

\* analyzeOrderBook applied to every order book of up to MaxSide entries a side
AnalyzeInit ==
    /\ HookIdle
    /\ DataIdle
    /\ UtilIdle
    /\ marketId = ""
    /\ DepthIdle
    /\ OrchIdle
    /\ ApiIdle
    /\ \E bids \in Sides, asks \in Sides :
           book = [status |-> "input", snapshot |-> Snapshot("BTC_USDT", bids, asks),
                   analysis |-> NullAnalysis]

AnalyzeNext == analyzeOrderBookCall(book.snapshot)

AnalyzeSpec == AnalyzeInit /\ [][AnalyzeNext]_vars

\* useMarketDepth: mounted with any market id, re-rendered with other ids and
\* refreshed while its getMarketDepth calls settle in any order
DepthInit ==
    /\ HookIdle
    /\ DataIdle
    /\ UtilIdle
    /\ book = NoBook
    /\ marketId \in MarketIds
    /\ DepthIdle
    /\ OrchIdle
    /\ ApiIdle

DepthNext ==
    \/ mountEffect
    \/ \E id \in MarketIds : setMarketId(id)
    \/ refreshDepth
    \/ \E i \in 1..MaxFetches, b \in DepthBooks : getMarketDepthResolves(i, b[1], b[2])
    \/ \E i \in 1..MaxFetches : getMarketDepthRejects(i)

DepthSpec == DepthInit /\ [][DepthNext]_vars

\* useFilteredAndSortedMarkets: created with the options of the Markets screen
\* (defaultSort null), with no sorting options or with an explicit default,
\* before the market data has arrived and with an empty search box
OrchOptions ==
    { NoOptions,
      [defaultSort |-> NullConfig, maxSorts |-> 2],
      [defaultSort |-> Cfg("market", "asc"), maxSorts |-> 1] }

OrchInit ==
    /\ options \in OrchOptions
    /\ sortConfigs = InitialChain
    /\ threw = FALSE
    /\ lastCall = NoCall
    /\ prevConfigs = <<>>
    /\ ring = 0
    /\ markets = <<>>
    /\ sortResult = NoResult
    /\ cmp = NoCmp
    /\ DataIdle
    /\ UtilIdle
    /\ book = NoBook
    /\ marketId = ""
    /\ DepthIdle
    /\ ApiIdle
    /\ rawMarkets = <<>>
    /\ searchQuery = <<>>
    /\ searchFieldsOption \in OrchSearchFields
    /\ filteredMarkets = FilterAndSort(<<>>, <<>>, searchFieldsOption.fields, InitialChain)

OrchNext ==
    \/ \E field \in SortFields : orchToggleSort(field)
    \/ orchClearSorts
    \/ \E query \in OrchQueries : setSearchQuery(query)
    \/ \E ms \in OrchMarketLists : setMarkets(ms)

OrchSpec == OrchInit /\ [][OrchNext]_vars

\* KangaApiClient: up to MaxRequests requests, each retried on its own, with
\* API_RETRY_ATTEMPTS anywhere from 0 to MaxAttempts
ApiInit ==
    /\ HookIdle
    /\ DataIdle
    /\ UtilIdle
    /\ book = NoBook
    /\ marketId = ""
    /\ DepthIdle
    /\ OrchIdle
    /\ requests = [r \in 1..MaxRequests |-> IdleRequest]
    /\ MAX_RETRY_ATTEMPTS \in 0..MaxAttempts

ApiNext ==
    \/ \E r \in 1..MaxRequests : get(r)
    \/ \E r \in 1..MaxRequests : attemptEnds(r)
    \/ \E r \in 1..MaxRequests : sleepEnds(r)

ApiSpec == ApiInit /\ [][ApiNext]_vars

\* the same with the scheduling the client relies on: every attempt ends
\* (axios is created with timeout: config.API_TIMEOUT) and every sleep ends
\* (setTimeout)
ApiLiveSpec ==
    /\ ApiSpec
    /\ \A r \in 1..MaxRequests : WF_vars(attemptEnds(r)) /\ WF_vars(sleepEnds(r))

\* ------------------------------------------------------------------ claims
\* the field of the last toggleSort call
F == lastCall.field

Toggled == lastCall.op = "toggleSort"

HasEntry(chain, f, o) == \E i \in 1..Len(chain) : chain[i] = Cfg(f, o)

HasField(chain, f) == \E i \in 1..Len(chain) : chain[i].field = f

\* toggleSort looks the field up and finds no entry (existingIndex === -1)
Absent(chain, f) == ~FindThrows(chain, f) /\ findIndex(chain, f) = 0

C2_ToggleRing ==
    /\ ring = 1 => HasEntry(sortConfigs, F, "desc")
    /\ ring = 2 => HasEntry(sortConfigs, F, "asc")
    /\ ring = 3 => ~HasField(sortConfigs, F)

\* C2 amended: three consecutive toggleSort(F) calls from OFF give {F, desc},
\* then {F, asc}, then no entry for F, except that when F was the only entry
\* the chain returns to [defaultSort], which holds F if F is the default field.
C2_ToggleRingAmended ==
    /\ ring = 1 => HasEntry(sortConfigs, F, "desc")
    /\ ring = 2 => HasEntry(sortConfigs, F, "asc")
    /\ ring = 3 => \/ ~HasField(sortConfigs, F)
                   \/ /\ Len(prevConfigs) = 1
                      /\ sortConfigs = <<defaultSort>>
                      /\ defaultSort.field = F

\* C2 witness: the third call of the ring removed F from a two-entry chain
C2_Witness ==
    /\ ring = 3 /\ Toggled
    /\ Len(prevConfigs) = 2 /\ HasEntry(prevConfigs, F, "asc")
    /\ ~HasField(sortConfigs, F)

\* C3: toggling a field that is not in the chain while the chain is at the cap
\* removes the entry at index 0, keeps the others in order and appends
\* {F, desc} as the last entry.
C3_FifoEviction ==
    (Toggled /\ Absent(prevConfigs, F) /\ Len(prevConfigs) = maxSorts)
        => sortConfigs = Tail(prevConfigs) \o <<Cfg(F, "desc")>>

\* C3 witness: cap 2, chain [volume, spread], toggleSort(price) gave [spread, price]
C3_Witness ==
    /\ Toggled /\ F = "price" /\ maxSorts = 2
    /\ prevConfigs = <<Cfg("volume", "desc"), Cfg("spread", "desc")>>
    /\ sortConfigs = <<Cfg("spread", "desc"), Cfg("price", "desc")>>

\* C4: with a default sort configured the chain is never empty, and a
\* toggleSort that removes the only remaining entry leaves [defaultSort].
C4_NeverEmptyWithDefault ==
    defaultSort \in SortConfigs =>
        /\ sortConfigs # <<>>
        /\ (Toggled /\ prevConfigs = <<Cfg(F, "asc")>>) => sortConfigs = <<defaultSort>>

\* C4 witness: the only entry was asc, was toggled, and the default came back
C4_Witness ==
    /\ defaultSort \in SortConfigs
    /\ Toggled /\ prevConfigs = <<Cfg(F, "asc")>>
    /\ defaultSort.field # F
    /\ sortConfigs = <<defaultSort>>

\* C5 as stated: created with no default sort (no options, or defaultSort
\* null), the chain starts empty and sortMarkets returns its input unchanged.
C5_NoDefaultStartsEmpty ==
    (lastCall = NoCall /\ options.defaultSort \in {UndefinedConfig, NullConfig})
        => /\ sortConfigs = <<>>
           /\ \A ms \in MarketLists :
                SortMarketsResult(ms, sortConfigs) = [status |-> "returned", value |-> ms]

\* C6: after clearSorts the chain is the initial chain [defaultSort],
\* whatever it was before.
C6_ClearResets == lastCall.op = "clearSorts" => sortConfigs = InitialChain

\* C6 witness: clearSorts was called on a two-entry chain
C6_Witness ==
    /\ lastCall.op = "clearSorts"
    /\ Len(prevConfigs) = 2 /\ prevConfigs # sortConfigs
    /\ sortConfigs = <<defaultSort>>

Returned == sortResult.status = "returned"

Sorted == sortResult.value

WellFormed(chain) == \A k \in 1..Len(chain) : chain[k] \in SortConfigs

\* the result holds the same records as the input
IsPermutation(out, in) ==
    /\ Len(out) = Len(in)
    /\ \A i \in 1..Len(in) : \E j \in 1..Len(out) : out[j] = in[i]

TieOnChain(a, b, chain) ==
    \A k \in 1..Len(chain) : compareByField(a, b, chain[k].field) = 0

Pos(s, r) == CHOOSE i \in 1..Len(s) : s[i].tickerId = r.tickerId

\* the first chain entry on which a and b differ, 0 if none
FirstDiff(a, b, chain) ==
    IF TieOnChain(a, b, chain) THEN 0
    ELSE CHOOSE k \in 1..Len(chain) :
            /\ compareByField(a, b, chain[k].field) # 0
            /\ \A j \in 1..(k - 1) : compareByField(a, b, chain[j].field) = 0

\* C7 as stated: with spread as the primary chain entry, asc or desc, every
\* record with a null spread comes after every record with a non-null spread.
C7_NullSpreadsLast ==
    (Returned /\ sortConfigs # <<>> /\ sortConfigs[1].field = "spread")
        => \A i, j \in 1..Len(Sorted) :
              (Sorted[i].spread.isNull /\ ~Sorted[j].spread.isNull) => j < i

\* C8: sortMarkets is stable: records that compare equal on every chain field
\* keep their relative input order, for every list and every sort chain.
C8_SortStable ==
    (sortResult.status # "none" /\ WellFormed(sortConfigs))
        => /\ Returned
           /\ IsPermutation(Sorted, markets)
           /\ \A i, j \in 1..Len(markets) :
                (i < j /\ TieOnChain(markets[i], markets[j], sortConfigs))
                    => Pos(Sorted, markets[i]) < Pos(Sorted, markets[j])

\* C8 witness: a list with two fully tied records was sorted and reordered
C8_Witness ==
    /\ Returned /\ WellFormed(sortConfigs)
    /\ Len(markets) = 3 /\ Sorted # markets
    /\ \E i, j \in 1..Len(markets) :
          i < j /\ TieOnChain(markets[i], markets[j], sortConfigs)

\* C9: any two records of the result are ordered by the first chain entry on
\* which they differ, in that entry's direction; a later entry decides only
\* when all earlier entries tie.
C9_Lexicographic ==
    (sortResult.status # "none" /\ WellFormed(sortConfigs))
        => /\ Returned
           /\ IsPermutation(Sorted, markets)
           /\ \A i, j \in 1..Len(Sorted) :
                LET k == FirstDiff(Sorted[i], Sorted[j], sortConfigs) IN
                (i < j /\ k # 0) =>
                    LET c == compareByField(Sorted[i], Sorted[j], sortConfigs[k].field) IN
                    IF sortConfigs[k].order = "asc" THEN c < 0 ELSE c > 0

\* C9 witness: the second chain entry decided the order of two records and
\* the list was reordered
C9_Witness ==
    /\ Returned /\ WellFormed(sortConfigs) /\ Len(sortConfigs) = 2
    /\ Sorted # markets
    /\ \E i, j \in 1..Len(Sorted) :
          i < j /\ FirstDiff(Sorted[i], Sorted[j], sortConfigs) = 2

Sign(x) == IF x < 0 THEN -1 ELSE IF x > 0 THEN 1 ELSE 0

RagCompared == cmp.status = "done" /\ cmp.field = "ragStatus"

\* C10 as stated: compareByField(a, b, 'ragStatus') has the same sign as
\* compareRAGStatus(a.ragStatus, b.ragStatus).
C10_SameSignAsPriority ==
    RagCompared => Sign(cmp.byField) = Sign(cmp.byPriority)

\* C10 amended: compareByField(a, b, 'ragStatus') is the negation of
\* compareRAGStatus(a.ragStatus, b.ragStatus): green sorts first ascending.
C10_OppositeOfPriority ==
    RagCompared => cmp.byField = -cmp.byPriority

\* C10 witness: green was compared with red and ranked before it
C10_Witness ==
    /\ RagCompared
    /\ cmp.a.ragStatus = "green" /\ cmp.b.ragStatus = "red"
    /\ cmp.byField < 0

\* ---- spread utilities
Zero == Dy(0, 0)

\* the last call was calculateSpread on two positive finite numbers, ask >= bid
PositiveUncrossed ==
    /\ calc.op = "calculateSpread"
    /\ IsFinite(calc.bid) /\ IsFinite(calc.ask)
    /\ Lt(Zero, calc.bid) /\ Le(calc.bid, calc.ask)

\* ((ask - bid) / ((ask + bid) / 2)) * 100 in floating-point arithmetic
SpreadFormula(bid, ask) ==
    FMul(FDiv(FSub(ask, bid), FDiv(FAdd(ask, bid), Dy(2, 0))), Dy(100, 0))

\* C15: classifyRAG(spread) is green iff spread is finite and <= 2.0, red
\* iff spread is null or non-finite (NaN, +Infinity, -Infinity), and amber
\* iff neither, that is for every finite spread above 2.0.
C15_ClassifyRAG ==
    calc.op = "classifyRAG" =>
        LET s == calc.spread
            finite == s.kind = "number"
        IN  /\ calc.rag = "green" <=> (finite /\ Le(s, Dy(2, 0)))
            /\ calc.rag = "red" <=> (s.kind \in {"null", "NaN", "Infinity", "-Infinity"})
            /\ calc.rag = "amber" <=> (finite /\ Lt(Dy(2, 0), s))

\* classifyRAG was applied to exactly 2.0 and answered green
C15_Witness ==
    /\ calc.op = "classifyRAG"
    /\ calc.spread = Dy(2, 0)
    /\ calc.rag = "green"

\* C16: calculateSpread(bid, ask) is null whenever bid or ask is null or
\* undefined, non-finite, <= 0, or ask < bid, and a number otherwise.
C16_SpreadNullRules ==
    calc.op = "calculateSpread" =>
        LET missing == calc.bid.kind \in {"null", "undefined"}
                       \/ calc.ask.kind \in {"null", "undefined"}
            nonFinite == calc.bid.kind \in {"NaN", "Infinity", "-Infinity"}
                         \/ calc.ask.kind \in {"NaN", "Infinity", "-Infinity"}
            bad == \/ missing
                   \/ nonFinite
                   \/ calc.bid.m <= 0
                   \/ calc.ask.m <= 0
                   \/ Lt(calc.ask, calc.bid)
        IN  IF bad THEN calc.result = Null ELSE calc.result.kind = "number"

\* calculateSpread was applied to a crossed book of positive prices
C16_Witness ==
    /\ calc.op = "calculateSpread"
    /\ calc.bid = Dy(3, 0)
    /\ calc.ask = Dy(2, 0)
    /\ calc.result = Null

\* C17 as stated: for finite bid, ask > 0 with ask >= bid, calculateSpread is
\* the value of ((ask - bid) / ((ask + bid) / 2)) * 100, lies in [0, 200),
\* and is exactly 0 when bid = ask.
C17_SpreadBelow200 ==
    PositiveUncrossed =>
        /\ calc.result = SpreadFormula(calc.bid, calc.ask)
        /\ Le(Zero, calc.result) /\ Lt(calc.result, Dy(200, 0))
        /\ calc.bid = calc.ask => calc.result = Zero

\* C17 amended: for finite bid, ask > 0 with ask >= bid, calculateSpread is
\* the value of ((ask - bid) / ((ask + bid) / 2)) * 100, lies in [0, 200]
\* (200 included), and is exactly 0 when bid = ask.
C17_SpreadAtMost200 ==
    PositiveUncrossed =>
        /\ calc.result = SpreadFormula(calc.bid, calc.ask)
        /\ Le(Zero, calc.result) /\ Le(calc.result, Dy(200, 0))
        /\ calc.bid = calc.ask => calc.result = Zero

\* a bid that vanishes next to the ask gave exactly 200
C17_Witness ==
    /\ PositiveUncrossed
    /\ calc.bid # calc.ask
    /\ calc.result = Dy(200, 0)

\* ---- useMarketData
\* the responses the call that completed last was given
LastPairs == calls[lastSuccess].pairs.data

LastSummaries == calls[lastSuccess].summary.data

Matches(id) == {k \in 1..Len(LastSummaries) : LastSummaries[k].ticker_id = id}

\* C11: after a successful refresh the markets state holds exactly one record
\* per trading pair of the pair listing; a pair with a summary of its ticker
\* id (wherever it stands in the summary listing) carries that summary's bid,
\* ask, price and volume, with the spread and rating derived from them; a pair
\* with no summary of its ticker id gets highestBid = lowestAsk = spread =
\* null, lastPrice = 0, volume24h = 0 and ragStatus = red.
C11_OneRecordPerPair ==
    lastSuccess # 0 =>
        /\ Len(marketsState) = Len(LastPairs)
        /\ \A k \in 1..Len(LastPairs) :
               Cardinality({i \in 1..Len(marketsState) :
                               marketsState[i].tickerId = LastPairs[k].ticker_id}) = 1
        /\ \A i \in 1..Len(marketsState) :
               LET r == marketsState[i] IN
               IF Matches(r.tickerId) = {}
               THEN /\ r.highestBid = Null /\ r.lowestAsk = Null /\ r.spread = Null
                    /\ r.lastPrice = 0 /\ r.volume24h = 0 /\ r.ragStatus = "red"
               ELSE \E k \in Matches(r.tickerId) :
                        LET s == LastSummaries[k] IN
                        /\ r.highestBid = s.bid /\ r.lowestAsk = s.ask
                        /\ r.lastPrice = s.last_price /\ r.volume24h = s.base_volume
                        /\ r.spread = calculateSpread(s.bid, s.ask)
                        /\ r.ragStatus = classifyRAG(r.spread)

\* a refresh succeeded with a pair that has no summary and a pair whose
\* summary stands at another position than the pair
C11_Witness ==
    /\ lastSuccess # 0
    /\ \E i \in 1..Len(marketsState) : Matches(marketsState[i].tickerId) = {}
    /\ \E k \in 1..Len(LastPairs) :
           /\ Matches(LastPairs[k].ticker_id) # {}
           /\ k \notin Matches(LastPairs[k].ticker_id)

\* the position of ticker id in the pair listing of the last completed call
PairPos(id) == CHOOSE k \in 1..Len(LastPairs) : LastPairs[k].ticker_id = id

\* C12: after every successful refresh the markets state is ordered by
\* non-increasing volume24h, and records of equal volume24h stand in the
\* order of the pair listing.
C12_BaselineOrder ==
    lastSuccess # 0 =>
        \A i, j \in 1..Len(marketsState) :
            i < j =>
                /\ marketsState[i].volume24h >= marketsState[j].volume24h
                /\ marketsState[i].volume24h = marketsState[j].volume24h =>
                       PairPos(marketsState[i].tickerId) < PairPos(marketsState[j].tickerId)

\* a refresh succeeded whose records had to be reordered and that has two
\* records of equal volume
C12_Witness ==
    /\ lastSuccess # 0
    /\ \E i, j \in 1..Len(marketsState) :
           i < j /\ marketsState[i].volume24h = marketsState[j].volume24h
    /\ \E i, j \in 1..Len(marketsState) :
           i < j /\ PairPos(marketsState[i].tickerId) > PairPos(marketsState[j].tickerId)

\* what call i, once it has both responses, makes of them
RecordsOf(i) == ProcessedMarkets(calls[i].pairs.data, calls[i].summary.data)

\* the markets state and stamp left by the calls that completed up to i
DisplayedAfter(i) == IF i = 0 THEN <<>> ELSE RecordsOf(i)

StampAfter(i) == IF i = 0 THEN NullDate ELSE DateOf(i)

\* C13: when getMarketPairs or getMarketSummary rejects during a refresh,
\* the refresh fails as a whole: error is non-null, loading is false, and
\* the refresh leaves markets and lastUpdated as they were; unless another
\* refresh completed in the meantime these are the values from before the
\* refresh started. Nothing is assembled from the request that succeeded.
C13_AllOrNothing ==
    lastEvent.kind = "failure" =>
        /\ error # "null"
        /\ loading = FALSE
        /\ marketsState = prevMarkets
        /\ lastUpdated = prevUpdated
        /\ lastSuccess = calls[lastEvent.id].seen =>
               /\ marketsState = DisplayedAfter(calls[lastEvent.id].seen)
               /\ lastUpdated = StampAfter(calls[lastEvent.id].seen)

\* a refresh failed on its summary request after its pair request had
\* answered with pairs, while records of an earlier refresh were displayed
C13_Witness ==
    /\ lastEvent.kind = "failure"
    /\ calls[lastEvent.id].pairs.status = "resolved"
    /\ calls[lastEvent.id].pairs.data # <<>>
    /\ calls[lastEvent.id].summary.status = "rejected"
    /\ marketsState # <<>>

\* calls i and j were in flight at the same time
Overlap(i, j) == i \in calls[j].open \/ j \in calls[i].open

\* C14: when two refreshes overlap and both succeed, the markets state
\* after both have settled is the record set of the one whose responses
\* arrived last (and lastUpdated its stamp), whichever was started last.
C14_LastResponseWins ==
    \A i, j \in 1..Len(calls) :
        ( /\ Overlap(i, j)
          /\ calls[i].outcome = "succeeded"
          /\ calls[j].outcome = "succeeded"
          /\ lastSuccess = i )
        => /\ marketsState = RecordsOf(i)
           /\ lastUpdated = DateOf(i)

\* two overlapping refreshes succeeded with different record sets and the
\* one started first completed last
C14_Witness ==
    \E i, j \in 1..Len(calls) :
        /\ i < j
        /\ Overlap(i, j)
        /\ calls[i].outcome = "succeeded"
        /\ calls[j].outcome = "succeeded"
        /\ lastSuccess = i
        /\ RecordsOf(i) # RecordsOf(j)
        /\ marketsState = RecordsOf(i)

\* ---- useMarketFiltering
\* the record matches the query of the last filterMarkets call
Hit(record) ==
    \E field \in filt.searchFields :
        /\ record[field].present
        /\ includes(toLowerCase(record[field].s), toLowerCase(trim(filt.query)))

Hits == {i \in 1..Len(filt.markets) : Hit(filt.markets[i])}

\* the k-th smallest element of a set of indices
Nth(S, k) == CHOOSE i \in S : Cardinality({j \in S : j <= i}) = k

\* C18: filterMarkets(records, query) returns, in their original order,
\* exactly the records with a configured search field that is present and
\* whose lowercased value contains the trimmed, lowercased query; for an
\* empty or whitespace-only query it returns all records in the same order.
C18_FilterMarkets ==
    filt.status = "done" =>
        IF \A i \in 1..Len(filt.query) : filt.query[i] = " "
        THEN filt.result = filt.markets
        ELSE /\ Len(filt.result) = Cardinality(Hits)
             /\ \A k \in 1..Len(filt.result) :
                    filt.result[k] = filt.markets[Nth(Hits, k)]

\* a query with upper case and surrounding blanks kept one record of two
C18_Witness ==
    /\ filt.status = "done"
    /\ filt.query = <<" ", "T", "c">>
    /\ Len(filt.markets) = 2
    /\ Len(filt.result) = 1
    /\ filt.result[1] = filt.markets[2]

\* ---- validators
Items == 1..Len(valid.summary)

\* a value the claims call missing, null, an empty string or non-numeric
Unusable(raw) == raw.kind \in {"missing", "null", "empty", "text"}

\* every field of item k other than those in the set skip holds a
\* non-negative decimal string, and its trading_pairs is not empty
PlainExcept(k, skip) ==
    /\ valid.summary[k].trading_pairs # <<>>
    /\ \A f \in NumericFields \ skip :
           valid.summary[k][f].kind = "numstr" /\ valid.summary[k][f].n >= 0

\* C19: validateMarketSummary throws whenever some summary item has a
\* required numeric field (last_price, highest_price_24h, lowest_price_24h,
\* base_volume, quote_volume) that is missing, null, an empty string,
\* non-numeric or negative.
C19_RequiredFieldFails ==
    valid.status = "done" =>
        ( (\E k \in Items, f \in RequiredNumbers :
              \/ Unusable(valid.summary[k][f])
              \/ valid.summary[k][f].kind = "numstr" /\ valid.summary[k][f].n < 0)
          => valid.result.status = "threw" )

\* the value the claim gives highest_bid / lowest_ask: null for an unusable
\* value, the number for a decimal string
ClaimedOptional(raw) == IF Unusable(raw) THEN Null ELSE Dy(raw.n, 0)

\* C20 as stated: a missing, null, empty-string or non-numeric highest_bid
\* or lowest_ask is accepted and becomes null, and a numeric string becomes
\* that number: when nothing else is wrong with the response, it is returned
\* with these bid and ask values.
C20_OptionalFields ==
    valid.status = "done" =>
        ( (\A k \in Items :
              /\ PlainExcept(k, OptionalNumbers)
              /\ \A f \in OptionalNumbers :
                     Unusable(valid.summary[k][f]) \/ valid.summary[k][f].kind = "numstr")
          => /\ valid.result.status = "returned"
             /\ \A k \in Items :
                    /\ valid.result.value[k].bid = ClaimedOptional(valid.summary[k].highest_bid)
                    /\ valid.result.value[k].ask = ClaimedOptional(valid.summary[k].lowest_ask) )

\* C20 amended: a missing, null, empty-string or non-numeric highest_bid or
\* lowest_ask is accepted and becomes null, and a non-negative numeric string
\* becomes that number (when nothing else is wrong with the response, it is
\* returned with these bid and ask values); a negative numeric string in
\* either field makes validation fail.
C20_OptionalFieldsNonNegative ==
    valid.status = "done" =>
        /\ (\A k \in Items :
               /\ PlainExcept(k, OptionalNumbers)
               /\ \A f \in OptionalNumbers :
                      \/ Unusable(valid.summary[k][f])
                      \/ valid.summary[k][f].kind = "numstr" /\ valid.summary[k][f].n >= 0)
            => /\ valid.result.status = "returned"
               /\ \A k \in Items :
                      /\ valid.result.value[k].bid = ClaimedOptional(valid.summary[k].highest_bid)
                      /\ valid.result.value[k].ask = ClaimedOptional(valid.summary[k].lowest_ask)
        /\ (\E k \in Items, f \in OptionalNumbers :
               valid.summary[k][f].kind = "numstr" /\ valid.summary[k][f].n < 0)
            => valid.result.status = "threw"

\* a response of two items was returned in which one item has a
\* non-numeric highest_bid, turned into null, and the numeric strings
\* became numbers
C20_Witness ==
    /\ valid.status = "done"
    /\ valid.result.status = "returned"
    /\ Len(valid.summary) = 2
    /\ \E k \in Items :
           /\ valid.summary[k].highest_bid = Text
           /\ valid.result.value[k].bid = Null
           /\ valid.result.value[k].ask = Dy(2, 0)
    /\ \E k \in Items : valid.result.value[k].bid = Dy(2, 0)

\* C24: calculateAbsoluteSpread(bid, ask) is null exactly when
\* calculateSpread(bid, ask) is null, a crossed book (ask < bid) included, and
\* is ask - bid otherwise.
C24_AbsoluteSpreadNullRules ==
    calc.op = "calculateAbsoluteSpread" =>
        /\ (calc.absolute = Null) <=> (calc.result = Null)
        /\ calc.absolute # Null => calc.absolute = FSub(calc.ask, calc.bid)

\* C26: when toggleSort(F) is called for a field F present with direction
\* desc, only that entry changes, to {F, asc}; the chain length, F's position
\* and every other entry's field, direction and position are unchanged.
C26_FlipInPlace ==
    (Toggled /\ ~threw /\ HasEntry(prevConfigs, F, "desc")) =>
        /\ Len(sortConfigs) = Len(prevConfigs)
        /\ \A i \in 1..Len(prevConfigs) :
              sortConfigs[i] = IF prevConfigs[i].field = F THEN Cfg(F, "asc")
                               ELSE prevConfigs[i]

\* C26 witness: the first of two entries was desc, was toggled, and is asc in
\* the same place with the second entry untouched
C26_Witness ==
    /\ Toggled /\ ~threw /\ F = "volume"
    /\ prevConfigs = <<Cfg("volume", "desc"), Cfg("spread", "asc")>>
    /\ sortConfigs = <<Cfg("volume", "asc"), Cfg("spread", "asc")>>

\* C28: in every reachable state of the sort chain, no field appears in more
\* than one entry, and every entry has a field in {market, spread, volume,
\* price, ragStatus} and an order in {asc, desc}.
C28_ChainWellFormed ==
    /\ DistinctFields(sortConfigs)
    /\ \A i \in 1..Len(sortConfigs) :
          /\ sortConfigs[i].field \in SortFields
          /\ sortConfigs[i].order \in SortOrders

\* a refresh is in flight from its start until its Promise.all settles
InFlight(i) == calls[i].outcome = "pending"

\* C29: loading is true in every state in which at least one refresh is still
\* in flight, also when refreshes overlap; loading is false only when every
\* started refresh has settled.
C29_LoadingWhileInFlight ==
    (\E i \in 1..Len(calls) : InFlight(i)) => loading = TRUE

\* the positions of item k's trading_pairs that hold '-' or '_'
Separators(k) ==
    {i \in 1..Len(valid.summary[k].trading_pairs) :
        valid.summary[k].trading_pairs[i] \in {"-", "_"}}

\* C21: for every summary item, validateMarketSummary splits trading_pairs on
\* '-' or '_' (whichever is present) into base and target and sets ticker_id =
\* base + '_' + target, base_currency = base and target_currency = target, so
\* that 'ETH-PLN' and 'ETH_PLN' yield the same ticker_id 'ETH_PLN', under
\* which the summary lookup by a pair's ticker_id finds the item.
C21_CanonicalTickerId ==
    (valid.status = "done" /\ valid.result.status = "returned") =>
        \A k \in Items :
            Cardinality(Separators(k)) = 1 =>
                LET tp == valid.summary[k].trading_pairs
                    i == CHOOSE i \in Separators(k) : TRUE
                    base == SubSeq(tp, 1, i - 1)
                    target == SubSeq(tp, i + 1, Len(tp))
                    id == [tp EXCEPT ![i] = "_"]
                    out == valid.result.value
                IN  /\ out[k].ticker_id = id
                    /\ out[k].ticker_id = base \o <<"_">> \o target
                    /\ out[k].base_currency = base
                    /\ out[k].target_currency = target
                    /\ HasSummary(out, id)
                    /\ SummaryFor(out, id).base_currency = base
                    /\ SummaryFor(out, id).target_currency = target

\* C21 witness: 'ETH-PLN' and 'ETH_PLN' were validated in one response and
\* both came out as 'ETH_PLN'
C21_Witness ==
    /\ valid.status = "done" /\ valid.result.status = "returned"
    /\ Len(valid.summary) = 2
    /\ valid.summary[1].trading_pairs = <<"E", "T", "H", "-", "P", "L", "N">>
    /\ valid.summary[2].trading_pairs = <<"E", "T", "H", "_", "P", "L", "N">>
    /\ valid.result.value[1].ticker_id = <<"E", "T", "H", "_", "P", "L", "N">>
    /\ valid.result.value[2].ticker_id = <<"E", "T", "H", "_", "P", "L", "N">>

\* ---- useMarketDepth
\* the quantities of a side added up exactly, in halves
RECURSIVE QuantityUnits(_)
QuantityUnits(entries) ==
    IF entries = <<>> THEN 0
    ELSE QuantityUnits(Tail(entries)) + Scaled(Head(entries).quantity, -1)

\* range is { min, max } over the prices of a side, or null when it is empty
IsRangeOf(range, entries) ==
    IF entries = <<>> THEN range = NullRange
    ELSE /\ ~range.isNull
         /\ \E i \in 1..Len(entries) : entries[i].price = range.min
         /\ \E i \in 1..Len(entries) : entries[i].price = range.max
         /\ \A i \in 1..Len(entries) :
                Le(range.min, entries[i].price) /\ Le(entries[i].price, range.max)

\* C22: analyzeOrderBook(snapshot) returns totalBidQuantity and
\* totalAskQuantity as the sums of the side's quantities, bidDepth and askDepth
\* as the side's entry counts, each price range as {min, max} over that side's
\* prices or null when the side is empty, and spreadAtDepth =
\* ((minAsk - maxBid) / ((minAsk + maxBid) / 2)) * 100, which is null if and
\* only if at least one side is empty.
C22_AnalyzeOrderBook ==
    book.status = "done" =>
        LET d == book.snapshot
            a == book.analysis
            minAsk == a.askPriceRange.min
            maxBid == a.bidPriceRange.max
        IN  /\ a.tickerId = d.ticker_id
            /\ a.totalBidQuantity = Dy(QuantityUnits(d.bids), -1)
            /\ a.totalAskQuantity = Dy(QuantityUnits(d.asks), -1)
            /\ a.bidDepth = Len(d.bids)
            /\ a.askDepth = Len(d.asks)
            /\ IsRangeOf(a.bidPriceRange, d.bids)
            /\ IsRangeOf(a.askPriceRange, d.asks)
            /\ (a.spreadAtDepth = Null) <=> (d.bids = <<>> \/ d.asks = <<>>)
            /\ (d.bids # <<>> /\ d.asks # <<>>) =>
                   a.spreadAtDepth =
                       FMul(FDiv(FSub(minAsk, maxBid),
                                 FDiv(FAdd(minAsk, maxBid), Dy(2, 0))),
                            Dy(100, 0))

\* C22 witness: a book with two prices on each side, best bid 2, best ask 3,
\* was analyzed: spread at depth (1 / 2.5) * 100, about 40
C22_Witness ==
    /\ book.status = "done"
    /\ Len(book.snapshot.bids) = 2 /\ Len(book.snapshot.asks) = 2
    /\ book.analysis.bidPriceRange = PriceRange(Dy(1, 0), Dy(2, 0))
    /\ book.analysis.askPriceRange = PriceRange(Dy(3, 0), Dy(3, 0))
    /\ book.analysis.totalBidQuantity = Dy(7, -1)
    /\ Lt(Dy(39, 0), book.analysis.spreadAtDepth)
    /\ Lt(book.analysis.spreadAtDepth, Dy(41, 0))

\* C23: useMarketDepth with an empty market id sets error to 'Market ID is
\* required' and loading to false, never calls getMarketDepth, and leaves
\* depth and analysis unchanged.
C23_EmptyMarketId ==
    /\ \A i \in 1..Len(fetches) : fetches[i].marketId # ""
    /\ depthEvent.kind = "empty" =>
           /\ depthError = "Market ID is required"
           /\ depthLoading = FALSE
           /\ Len(fetches) = depthEvent.calls
           /\ depth = depthEvent.depth
           /\ analysis = depthEvent.analysis

\* C23 witness: the hook was re-rendered with '' after a depth had been
\* fetched, and the depth is still there
C23_Witness ==
    /\ depthEvent.kind = "empty"
    /\ marketId = ""
    /\ ~depth.isNull /\ depth.ticker_id = "BTC_USDT"
    /\ depthError = "Market ID is required"

\* every getMarketDepth call made so far has settled
AllSettled == \A i \in 1..Len(fetches) : fetches[i].status # "pending"

\* C30: once every in-flight depth fetch has settled, a non-null depth and its
\* analysis belong to the current market: depth.ticker_id = analysis.tickerId
\* = marketId, also when marketId changed while an earlier fetch was in flight.
C30_DepthOfCurrentMarket ==
    (Mounted /\ AllSettled /\ ~depth.isNull) =>
        /\ depth.ticker_id = marketId
        /\ analysis.tickerId = marketId

\* ---- useFilteredAndSortedMarkets
\* C25: after any sequence of toggleSort, clearSorts, search-query changes and
\* replacements of the market set, filteredMarkets equals
\* sortMarkets(filterMarkets(markets, query)) evaluated with the current
\* markets, the current query and the current sort chain.
C25_OrchestratorConsistency ==
    LET filtered == FilterByView(rawMarkets, searchQuery, searchFieldsOption.fields)
    IN  filteredMarkets = SortMarketsResult(filtered, sortConfigs)

\* C25 witness: with a query that keeps two of three records and a
\* searchFields array that keeps its identity, a toggleSort changed the order
\* of the records shown
C25_Witness ==
    /\ lastCall.op = "toggleSort" /\ ~threw
    /\ searchFieldsOption.stable
    /\ searchQuery # <<>>
    /\ Len(rawMarkets) = 3
    /\ filteredMarkets.status = "returned"
    /\ Len(filteredMarkets.value) = 2
    /\ filteredMarkets.value #
           FilterByView(rawMarkets, searchQuery, searchFieldsOption.fields)

\* ---- KangaApiClient
\* a failure the claim calls retryable: no response, a 5xx status, or 429
Retryable(status) == status = 0 \/ (status >= 500 /\ status <= 599) \/ status = 429

\* what holds of request r in every state
RetryBounded(r) ==
    LET q == requests[r] IN
    /\ q.issued <= MAX_RETRY_ATTEMPTS + 1
    /\ q.phase = "sleeping" =>
           /\ q.retryCount - 1 < MAX_RETRY_ATTEMPTS
           /\ Retryable(q.error.status)
           /\ ~(q.error.status >= 400 /\ q.error.status <= 499 /\ q.error.status # 429)
    /\ q.phase = "rejected" =>
           /\ q.error.kind = "ApiError"
           /\ q.error.status \in FailureStatuses
           /\ q.error.message \in
                  {"Network Error: Unable to reach server. Please check your connection.",
                   "Request Error: ", "Too Many Requests: Please wait before retrying",
                   "Server Error: Internal server error", "Server Error: HTTP 499",
                   "Server Error: HTTP 599", "Server Error: HTTP 600"}

Settled(r) == requests[r].phase \in {"resolved", "rejected"}

\* C27: a failed request is re-issued only if fewer than MAX_RETRY_ATTEMPTS
\* retries have been made for it and the failure is retryable (no response, a
\* 5xx status, or 429); so no request is retried more than MAX_RETRY_ATTEMPTS
\* times, a 4xx other than 429 is never retried, and every request eventually
\* resolves or rejects with a normalized ApiError.
C27_BoundedRetry ==
    /\ [](\A r \in 1..MaxRequests : RetryBounded(r))
    /\ \A r \in 1..MaxRequests : (requests[r].phase # "idle") ~> Settled(r)

\* C27 witness: a request was retried MAX_RETRY_ATTEMPTS times (twice or
\* more) and then rejected with the ApiError of a 5xx answer
C27_Witness ==
    /\ MAX_RETRY_ATTEMPTS >= 2
    /\ requests[1].phase = "rejected"
    /\ requests[1].issued = MAX_RETRY_ATTEMPTS + 1
    /\ requests[1].error.kind = "ApiError"
    /\ requests[1].error.status = 500

====
